---- MODULE Spec2Model ----
(***************************************************************************)
(* A model of the dragontoothmg chess library: the Board with its          *)
(* redundant bitboard / piece-array representation and incremental Zobrist *)
(* hash, the legal move generator (pins, check evasion, castling,          *)
(* en passant, promotions), MakeMove with its BoardSaveT take-back record, *)
(* Restore, and the null move.                                             *)
(*                                                                         *)
(* A bitboard (uint64) is modelled as the set of the indices of its set    *)
(* bits, so & | ^ and ~ are set intersection, union, symmetric difference  *)
(* and complement in 0..63, and a shift moves every index.                 *)
(* The 64-bit Zobrist constants are modelled as distinct generators of a   *)
(* free vector space over GF(2): a hash is the set of the generators that  *)
(* occur an odd number of times, ^ is symmetric difference.  The raw       *)
(* en-passant index that the code XORs into the hash is the set of its     *)
(* binary digits (generators 0..5).                                        *)
(***************************************************************************)
EXTENDS Integers, Sequences, FiniteSets, TLC

(* ------------------------------ types.go ------------------------------ *)
White == 0
Black == 1
oppColor(color) == IF color = Black THEN White ELSE Black

Queenside == 0
Kingside == 1
toFlag(side) == IF side = Queenside THEN 1 ELSE 2

Nothing == 0
Pawn == 1
Knight == 2
Bishop == 3
Rook == 4
Queen == 5
King == 6
All == 7

Squares == 0 .. 63
everything == Squares

(* ------------------------- bitboard primitives ------------------------ *)
Min(S) == CHOOSE x \in S : \A y \in S : x <= y
Max(S) == CHOOSE x \in S : \A y \in S : x >= y

\* uint64(1) << pos : the shift count is a uint8, a count of 64 or more gives 0
Bit(pos) == IF pos % 256 \in Squares THEN {pos % 256} ELSE {}
Not(bb) == Squares \ bb
Shl(bb, n) == {s + n : s \in bb} \cap Squares
Shr(bb, n) == {s - n : s \in bb} \cap Squares
Xor(x, y) == (x \ y) \cup (y \ x)
bitSet(bits, pos) == pos \in bits
TrailingZeros64(bb) == IF bb = {} THEN 64 ELSE Min(bb)
OnesCount64(bb) == Cardinality(bb)

\* the set bits of a bitboard in the order the loops
\*   for bb != 0 { t := TrailingZeros64(bb); bb &= bb - 1; ... }   visit them
BitsAscending(bb) ==
    [i \in 1 .. Cardinality(bb) |->
        CHOOSE x \in bb : Cardinality({y \in bb : y < x}) = i - 1]

RECURSIVE Flatten(_)
Flatten(ss) == IF ss = <<>> THEN <<>> ELSE Head(ss) \o Flatten(Tail(ss))

(* --------------------------- precomputed masks ------------------------ *)
fileOf(s) == s % 8
rankOf(s) == s \div 8
onBoard(f, r) == f \in 0 .. 7 /\ r \in 0 .. 7
sq(f, r) == f + 8 * r

onlyFile == [f \in 0 .. 7 |-> {s \in Squares : fileOf(s) = f}]
onlyRank == [r \in 0 .. 7 |-> {s \in Squares : rankOf(s) = r}]

Leaps(s, deltas) ==
    {sq(fileOf(s) + d[1], rankOf(s) + d[2]) :
        d \in {e \in deltas : onBoard(fileOf(s) + e[1], rankOf(s) + e[2])}}

knightMasks ==
    [s \in Squares |-> Leaps(s, {<<1, 2>>, <<2, 1>>, <<2, -1>>, <<1, -2>>,
                                 <<-1, -2>>, <<-2, -1>>, <<-2, 1>>, <<-1, 2>>})]
kingMasks ==
    [s \in Squares |-> Leaps(s, {<<1, 0>>, <<1, 1>>, <<0, 1>>, <<-1, 1>>,
                                 <<-1, 0>>, <<-1, -1>>, <<0, -1>>, <<1, -1>>})]

(* ----------------------- magic sliding attacks ------------------------ *)
OrthoDirs == <<(<<1, 0>>), (<<-1, 0>>), (<<0, 1>>), (<<0, -1>>)>>
DiagDirs == <<(<<1, 1>>), (<<1, -1>>), (<<-1, 1>>), (<<-1, -1>>)>>

\* the squares from s (exclusive) to the edge of the board in direction d
Ray(s, d) ==
    LET n == Max({k \in 0 .. 7 : onBoard(fileOf(s) + k * d[1], rankOf(s) + k * d[2])})
    IN  [k \in 1 .. n |-> sq(fileOf(s) + k * d[1], rankOf(s) + k * d[2])]

rookRays == [s \in Squares |-> [i \in 1 .. 4 |-> Ray(s, OrthoDirs[i])]]
bishopRays == [s \in Squares |-> [i \in 1 .. 4 |-> Ray(s, DiagDirs[i])]]

\* blocker mask: every ray from s up to, but not including, its edge square
BlockerMask(rays) ==
    UNION {{rays[i][k] : k \in 1 .. (Len(rays[i]) - 1)} : i \in 1 .. 4}
magicRookBlockerMasks == [s \in Squares |-> BlockerMask(rookRays[s])]
magicBishopBlockerMasks == [s \in Squares |-> BlockerMask(bishopRays[s])]

\* one ray of an attack table entry: the empty squares up to the first blocker
\* and the blocker's square itself
RayAttack(ray, blockers) ==
    LET hit == {k \in 1 .. Len(ray) : ray[k] \in blockers}
        n   == IF hit = {} THEN Len(ray) ELSE Min(hit)
    IN  {ray[k] : k \in 1 .. n}

\* magicMovesRook[s][(blockers * magicNumberRook[s]) >> magicRookShifts[s]] :
\* the multiply-and-shift is a perfect hash of the blocker subset
magicMovesRook(s, blockers) ==
    UNION {RayAttack(rookRays[s][i], blockers) : i \in 1 .. 4}
magicMovesBishop(s, blockers) ==
    UNION {RayAttack(bishopRays[s][i], blockers) : i \in 1 .. 4}

CalculateRookMoveBitboard(currRook, allPieces) ==
    magicMovesRook(currRook, magicRookBlockerMasks[currRook] \cap allPieces)
CalculateBishopMoveBitboard(currBishop, allPieces) ==
    magicMovesBishop(currBishop, magicBishopBlockerMasks[currBishop] \cap allPieces)

(* --------------------------- Zobrist constants ------------------------ *)
\* generators 0..5 are the binary digits of a raw en-passant index
BitsOfIndex(n) == {i \in 0 .. 5 : (n \div (2 ^ i)) % 2 = 1}
whiteToMoveZobristC == {20}
castleRightsZobristC == [c \in 0 .. 1 |-> [side \in 0 .. 1 |-> {10 + 2 * c + side}]]
pieceSquareZobristC == [i \in 0 .. 11 |-> [s \in Squares |-> {100 + 64 * i + s}]]
piecesPawnZobristIndexes == [c \in 0 .. 1 |-> IF c = White THEN 0 ELSE 6]


(* ------------------------------- Move --------------------------------- *)
\* 16 bits: to (0-5), from (6-11), promotion (12-14), "simple" hint (15)
To(m) == m % 64
From(m) == (m \div 64) % 64
Promote(m) == (m \div 4096) % 8
IsSimple(m) == (m \div 32768) % 2 = 1
Setto(m, s) == m - To(m) + s
Setfrom(m, s) == m - 64 * From(m) + 64 * s
Setpromote(m, p) == m - 4096 * Promote(m) + 4096 * p
Setsimple(m) == IF IsSimple(m) THEN m ELSE m + 32768

(* ------------------------------- Board -------------------------------- *)
\* the zero value of the Board struct
EmptyBoard ==
    [Colortomove |-> White, enpassant |-> 0, Halfmoveclock |-> 0,
     castlerights |-> [c \in 0 .. 1 |-> 0], Fullmoveno |-> 0,
     Bbs |-> [c \in 0 .. 1 |-> [p \in 0 .. 7 |-> {}]],
     pieces |-> [s \in Squares |-> Nothing], hash |-> {}]

PieceAt(b, pos) == b.pieces[pos]
isWhitePieceAt(b, pos) == b.Bbs[White][All] \cap Bit(pos) # {}
isBlackPieceAt(b, pos) == b.Bbs[Black][All] \cap Bit(pos) # {}

canCastle(b, color, side) == (b.castlerights[color] \div toFlag(side)) % 2 = 1
weCanCastle(b, side) == canCastle(b, b.Colortomove, side)
oppCanCastle(b, side) == canCastle(b, oppColor(b.Colortomove), side)

flipCastleRights(b, color, side) ==
    [b EXCEPT !.castlerights[color] =
                  IF canCastle(b, color, side) THEN @ - toFlag(side) ELSE @ + toFlag(side),
              !.hash = Xor(@, castleRightsZobristC[color][side])]
flipOurCastleRights(b, side) == flipCastleRights(b, b.Colortomove, side)
flipOppCastleRights(b, side) == flipCastleRights(b, oppColor(b.Colortomove), side)

\* pieceBitboard and allBitboard are always &b.Bbs[col][kind] and &b.Bbs[col][All]
addPiece(b, col, piece, pos) ==
    [b EXCEPT !.Bbs[col][piece] = @ \cup Bit(pos),
              !.Bbs[col][All] = @ \cup Bit(pos),
              !.pieces[pos] = piece]
\* removePiece with a defect: pieces[pos] keeps the piece
removePiece_PiecesKept(b, col, piece, pos) ==
    [b EXCEPT !.Bbs[col][piece] = @ \ Bit(pos),
              !.Bbs[col][All] = @ \ Bit(pos)]

removePiece(b, col, piece, pos) ==
    LET b1 == [b EXCEPT !.Bbs[col][piece] = @ \ Bit(pos)]
    IN  [b1 EXCEPT !.Bbs[col][All] = @ \ Bit(pos),
                   !.pieces[pos] = Nothing]
movePiece(b, col, piece, destPiece, from, to) ==
    addPiece(removePiece(b, col, piece, from), col, destPiece, to)

hashXor(b, z) == [b EXCEPT !.hash = Xor(@, z)]

(* ------------------------------- util.go ------------------------------ *)
recomputeBoardHash(b) ==
    LET side == IF b.Colortomove = White THEN whiteToMoveZobristC ELSE {}
        castle == UNION {IF canCastle(b, c[1], c[2]) THEN castleRightsZobristC[c[1]][c[2]] ELSE {} :
                            c \in (0 .. 1) \X (0 .. 1)}
        placed == UNION {IF isWhitePieceAt(b, i) THEN pieceSquareZobristC[PieceAt(b, i) - 1][i]
                         ELSE IF isBlackPieceAt(b, i) THEN pieceSquareZobristC[PieceAt(b, i) + 5][i]
                         ELSE {} : i \in Squares}
    IN  Xor(Xor(Xor(side, castle), BitsOfIndex(b.enpassant)), placed)

IsCapture(m, b) ==
    LET toBitboard == Bit(To(m))
        fromBitboard == Bit(From(m))
        originIsPawn == fromBitboard \cap b.Bbs[White][Pawn] # {}
                        \/ fromBitboard \cap b.Bbs[Black][Pawn] # {}
    IN  \/ toBitboard \cap b.Bbs[White][All] # {}
        \/ toBitboard \cap b.Bbs[Black][All] # {}
        \/ originIsPawn /\ toBitboard \cap Bit(b.enpassant) # {}

\* A position as the fields of a FEN record: the piece placement is a function
\* from squares to <<colour, kind>> (kind Nothing for the '-' of an empty square)
ParseFen(fen) ==
    LET \* "add every piece to the board": the sum of the addPiece calls of the
        \* loop over the 64 squares, each of which sets one bit in the piece's
        \* bitboard and in the colour's All bitboard and writes pieces[i]
        on(c) == {i \in Squares : fen.placement[i][2] # Nothing /\ fen.placement[i][1] = c}
        b0 == [EmptyBoard EXCEPT
                 !.Bbs = [c \in 0 .. 1 |-> [p \in 0 .. 7 |->
                            IF p = All THEN on(c)
                            ELSE IF p = Nothing THEN {}
                            ELSE {i \in on(c) : fen.placement[i][2] = p}]],
                 !.pieces = [i \in Squares |-> fen.placement[i][2]]]
        b1 == [b0 EXCEPT !.Colortomove = fen.side]
        RECURSIVE rights(_, _)
        rights(b, cs) ==
            IF cs = <<>> THEN b
            ELSE rights(IF Head(cs) \in fen.castle
                        THEN flipCastleRights(b, Head(cs)[1], Head(cs)[2]) ELSE b, Tail(cs))
        b2 == rights(b1, << <<White, Kingside>>, <<White, Queenside>>,
                            <<Black, Kingside>>, <<Black, Queenside>> >>)
        b3 == [b2 EXCEPT !.enpassant = fen.ep,
                         !.Halfmoveclock = fen.halfmove % 256,
                         !.Fullmoveno = fen.fullmove % 65536]
    IN  [b3 EXCEPT !.hash = recomputeBoardHash(b3)]

(* ------------------------------ apply.go ------------------------------ *)
epDeltas == [c \in 0 .. 1 |-> IF c = White THEN -8 ELSE 8]
startingRankBbs == [c \in 0 .. 1 |-> IF c = White THEN onlyRank[0] ELSE onlyRank[7]]

\* SaveHeader with a defect: the halfmove clock is not saved
SaveHeader_ClockNotSaved(b, m) ==
    LET ourCol == b.Colortomove
        oppCol == oppColor(ourCol)
    IN  [Enpassant |-> b.enpassant, Halfmoveclock |-> 0,
         Castlerights |-> b.castlerights,
         FromLoc |-> From(m), ToLoc |-> To(m), CaptureLoc |-> To(m),
         FromPiece |-> b.pieces[From(m)], ToPiece |-> b.pieces[From(m)],
         CapturePiece |-> Nothing,
         FromBb |-> b.Bbs[ourCol][b.pieces[From(m)]],
         ToBb |-> b.Bbs[ourCol][b.pieces[From(m)]],
         CaptureBb |-> {},
         OurRookFrom |-> 0, OurRookTo |-> 0, OurRookBb |-> b.Bbs[ourCol][Rook],
         OurAllBb |-> b.Bbs[ourCol][All], OppAllBb |-> b.Bbs[oppCol][All],
         Hash |-> b.hash]

\* the fields both MakeSimpleMove and MakeSpecialMove save before touching the board
SaveHeader(b, m) ==
    LET ourCol == b.Colortomove
        oppCol == oppColor(ourCol)
    IN  [Enpassant |-> b.enpassant, Halfmoveclock |-> b.Halfmoveclock,
         Castlerights |-> b.castlerights,
         FromLoc |-> From(m), ToLoc |-> To(m), CaptureLoc |-> To(m),
         FromPiece |-> b.pieces[From(m)], ToPiece |-> b.pieces[From(m)],
         CapturePiece |-> Nothing,
         FromBb |-> b.Bbs[ourCol][b.pieces[From(m)]],
         ToBb |-> b.Bbs[ourCol][b.pieces[From(m)]],
         CaptureBb |-> {},
         OurRookFrom |-> 0, OurRookTo |-> 0, OurRookBb |-> b.Bbs[ourCol][Rook],
         OurAllBb |-> b.Bbs[ourCol][All], OppAllBb |-> b.Bbs[oppCol][All],
         Hash |-> b.hash]

\* StripRookRights with a defect: a rook that leaves its home square keeps
\* the right
StripRookRights_RightKept(b, fromBit) == b

\* "Rook moves strip castling rights": the same if / else-if in both paths
StripRookRights(b, fromBit) ==
    LET ourStartingRankBb == startingRankBbs[b.Colortomove]
    IN  IF weCanCastle(b, Kingside) /\ fromBit \cap onlyFile[7] # {}
           /\ fromBit \cap ourStartingRankBb # {}
        THEN flipOurCastleRights(b, Kingside)
        ELSE IF weCanCastle(b, Queenside) /\ fromBit \cap onlyFile[0] # {}
                /\ fromBit \cap ourStartingRankBb # {}
        THEN flipOurCastleRights(b, Queenside)
        ELSE b

\* "King moves always strip castling rights"
StripKingRights(b) ==
    LET b1 == IF weCanCastle(b, Kingside) THEN flipOurCastleRights(b, Kingside) ELSE b
    IN  IF weCanCastle(b1, Queenside) THEN flipOurCastleRights(b1, Queenside) ELSE b1

\* StripCapturedRookRights with a defect: the opponent keeps the right
StripCapturedRookRights_RightKept(b, toLoc) == b

\* "If a rook was captured, it strips castling rights"
StripCapturedRookRights(b, toLoc) ==
    LET oppStartingRankBb == startingRankBbs[oppColor(b.Colortomove)]
    IN  IF toLoc % 8 = 7 /\ Bit(toLoc) \cap oppStartingRankBb # {} /\ oppCanCastle(b, Kingside)
        THEN flipOppCastleRights(b, Kingside)
        ELSE IF toLoc % 8 = 0 /\ Bit(toLoc) \cap oppStartingRankBb # {}
                /\ oppCanCastle(b, Queenside)
        THEN flipOppCastleRights(b, Queenside)
        ELSE b

\* MakeSimpleMove and MakeSpecialMove run as straight-line code: each step
\* below takes and returns the record st of the board b, the save bs and the
\* function's local variables.

\* MakeSimpleMove: fill the save, bump the clocks, clear the en-passant square
simpleSave(b, m) ==
    LET ourCol == b.Colortomove
        oppCol == oppColor(ourCol)
        capturePiece == b.pieces[To(m)]
    IN  [b |-> [b EXCEPT !.Fullmoveno = (@ + ourCol) % 65536,
                         !.Halfmoveclock = (@ + 1) % 256,
                         \* remove the old en-passant square from the hash
                         !.hash = Xor(@, BitsOfIndex(b.enpassant)),
                         !.enpassant = 0],
         bs |-> [SaveHeader(b, m) EXCEPT !.CapturePiece = capturePiece,
                                         !.CaptureBb = b.Bbs[oppCol][capturePiece]],
         ourCol |-> ourCol, oppCol |-> oppCol,
         fromLoc |-> From(m), toLoc |-> To(m),
         fromPiece |-> b.pieces[From(m)], capturePiece |-> capturePiece]

\* simpleMover with a defect: a pawn move does not reset the halfmove clock
simpleMover_PawnClockKept(st) ==
    LET epDelta == epDeltas[st.ourCol]
        moved == [st EXCEPT !.b =
                     IF st.fromPiece = Pawn
                     THEN [@ EXCEPT !.enpassant = IF st.toLoc + 2 * epDelta = st.fromLoc
                                                  THEN st.toLoc + epDelta ELSE @]
                     ELSE IF st.fromPiece = King THEN StripKingRights(@)
                     ELSE IF st.fromPiece = Rook THEN StripRookRights(@, Bit(st.fromLoc))
                     ELSE @]
    IN  [moved EXCEPT !.b = hashXor(@, BitsOfIndex(@.enpassant))]

\* MakeSimpleMove: the pawn / king / rook cases, then the new en-passant
\* square goes into the hash
simpleMover(st) ==
    LET epDelta == epDeltas[st.ourCol]
        moved == [st EXCEPT !.b =
                     IF st.fromPiece = Pawn
                     THEN [@ EXCEPT !.Halfmoveclock = 0,
                                    !.enpassant = IF st.toLoc + 2 * epDelta = st.fromLoc
                                                  THEN st.toLoc + epDelta ELSE @]
                     ELSE IF st.fromPiece = King THEN StripKingRights(@)
                     ELSE IF st.fromPiece = Rook THEN StripRookRights(@, Bit(st.fromLoc))
                     ELSE @]
    IN  [moved EXCEPT !.b = hashXor(@, BitsOfIndex(@.enpassant))]

\* simpleCapture with a defect: a capture does not reset the halfmove clock
simpleCapture_ClockNotReset(st) ==
    LET toBit == Bit(st.toLoc)
        removed == [st EXCEPT !.b.pieces[st.toLoc] = Nothing,
                              !.b.Bbs[st.oppCol][st.capturePiece] = @ \ toBit,
                              !.b.Bbs[st.oppCol][All] = @ \ toBit,
                              !.b.hash = Xor(@, pieceSquareZobristC[
                                  piecesPawnZobristIndexes[st.oppCol]
                                  + (st.capturePiece - 1)][st.toLoc])]
    IN  IF st.capturePiece = Nothing THEN st
        ELSE IF st.capturePiece = Rook
        THEN [removed EXCEPT !.b = StripCapturedRookRights(@, st.toLoc)]
        ELSE removed

\* MakeSimpleMove: remove the captured piece
simpleCapture(st) ==
    LET toBit == Bit(st.toLoc)
        removed == [st EXCEPT !.b.Halfmoveclock = 0,
                              !.b.pieces[st.toLoc] = Nothing,
                              !.b.Bbs[st.oppCol][st.capturePiece] = @ \ toBit,
                              !.b.Bbs[st.oppCol][All] = @ \ toBit,
                              !.b.hash = Xor(@, pieceSquareZobristC[
                                  piecesPawnZobristIndexes[st.oppCol]
                                  + (st.capturePiece - 1)][st.toLoc])]
    IN  IF st.capturePiece = Nothing THEN st
        ELSE IF st.capturePiece = Rook
        THEN [removed EXCEPT !.b = StripCapturedRookRights(@, st.toLoc)]
        ELSE removed

\* MakeSimpleMove: take the piece from 'from', put it at 'to', flip the side
simplePlace(st) ==
    LET ourIdx == piecesPawnZobristIndexes[st.ourCol]
        fromBit == Bit(st.fromLoc)
        toBit == Bit(st.toLoc)
        lifted == [st EXCEPT !.b.pieces[st.fromLoc] = Nothing,
                             !.b.Bbs[st.ourCol][st.fromPiece] = @ \ fromBit,
                             !.b.Bbs[st.ourCol][All] = @ \ fromBit,
                             !.b.hash = Xor(@, pieceSquareZobristC[
                                 (st.fromPiece - 1) + ourIdx][st.fromLoc])]
        placed == [lifted EXCEPT !.b.pieces[st.toLoc] = st.fromPiece,
                                 !.b.Bbs[st.ourCol][st.fromPiece] = @ \cup toBit,
                                 !.b.Bbs[st.ourCol][All] = @ \cup toBit,
                                 !.b.hash = Xor(@, pieceSquareZobristC[
                                     (st.fromPiece - 1) + ourIdx][st.toLoc])]
    IN  [placed EXCEPT !.b.Colortomove = oppColor(@),
                       !.b.hash = Xor(@, whiteToMoveZobristC)]

\* result: [b |-> the board after the move, bs |-> the filled BoardSaveT]
MakeSimpleMove(b, m) ==
    LET st == simplePlace(simpleCapture(simpleMover(simpleSave(b, m))))
    IN  [b |-> st.b, bs |-> st.bs]

\* MakeSpecialMove: fill the save, bump the clocks, recognise a castling
specialSave(b, m) ==
    LET ourCol == b.Colortomove
        fromLoc == From(m)
        toLoc == To(m)
        pieceType == PieceAt(b, fromLoc)
        \* uint8 subtraction for the short castle, int subtraction for the long one
        castleStatus == IF pieceType # King THEN 0
                        ELSE IF (toLoc - fromLoc) % 256 = 2 THEN 1
                        ELSE IF toLoc - fromLoc = -2 THEN -1
                        ELSE 0
    IN  [b |-> [b EXCEPT !.Fullmoveno = (@ + ourCol) % 65536,
                         !.Halfmoveclock = IF IsCapture(m, b) \/ pieceType = Pawn
                                           THEN 0 ELSE (@ + 1) % 256],
         bs |-> SaveHeader(b, m),
         ourCol |-> ourCol, oppCol |-> oppColor(ourCol),
         fromLoc |-> fromLoc, toLoc |-> toLoc, promote |-> Promote(m),
         pieceType |-> pieceType, castleStatus |-> castleStatus,
         oldRookLoc |-> IF castleStatus = 1 THEN (toLoc + 1) % 256
                        ELSE IF castleStatus = -1 THEN (toLoc - 2) % 256 ELSE 0,
         newRookLoc |-> IF castleStatus = 1 THEN (toLoc - 1) % 256
                        ELSE IF castleStatus = -1 THEN (toLoc + 1) % 256 ELSE 0,
         oldEpCaptureSquare |-> 0, promotedToPieceType |-> Nothing,
         capturedPieceType |-> Nothing]

\* MakeSpecialMove: king and rook moves strip castling rights
specialRights(st) ==
    LET king == [st EXCEPT !.b = IF st.pieceType = King THEN StripKingRights(@) ELSE @]
    IN  [king EXCEPT !.b = IF st.pieceType = Rook
                            THEN StripRookRights(@, Bit(st.fromLoc)) ELSE @]

\* specialCastle with a defect: the rook is moved on the bitboards and in
\* pieces[] but its squares are missing from the hash
specialCastle_RookNotHashed(st) ==
    IF st.castleStatus = 0 THEN st
    ELSE [st EXCEPT
             !.bs.OurRookFrom = st.oldRookLoc,
             !.bs.OurRookTo = st.newRookLoc,
             !.b = movePiece(@, st.ourCol, Rook, Rook, st.oldRookLoc, st.newRookLoc)]

\* MakeSpecialMove: apply the castling rook movement
specialCastle(st) ==
    LET ourIdx == piecesPawnZobristIndexes[st.ourCol]
    IN  IF st.castleStatus = 0 THEN st
        ELSE [st EXCEPT
                 !.bs.OurRookFrom = st.oldRookLoc,
                 !.bs.OurRookTo = st.newRookLoc,
                 !.b = hashXor(hashXor(
                           movePiece(@, st.ourCol, Rook, Rook, st.oldRookLoc, st.newRookLoc),
                           pieceSquareZobristC[ourIdx + (Rook - 1)][st.oldRookLoc]),
                           pieceSquareZobristC[ourIdx + (Rook - 1)][st.newRookLoc])]

\* specialEnPassant with a defect: the en-passant square is set by a double
\* push and otherwise left as it was
specialEnPassant_SquareNotCleared(st) ==
    LET epDelta == epDeltas[st.ourCol]
        oppIdx == piecesPawnZobristIndexes[st.oppCol]
        oldEpCaptureSquare == st.b.enpassant
        isEp == st.pieceType = Pawn /\ st.toLoc = oldEpCaptureSquare /\ oldEpCaptureSquare # 0
        epOpponentPawnLocation == (oldEpCaptureSquare + epDelta) % 256
        taken == IF isEp
                 THEN [st EXCEPT
                          !.bs.CapturePiece = Pawn,
                          !.bs.CaptureLoc = epOpponentPawnLocation,
                          !.bs.CaptureBb = st.b.Bbs[st.oppCol][Pawn],
                          !.b = hashXor(removePiece(@, st.oppCol, Pawn, epOpponentPawnLocation),
                                        pieceSquareZobristC[oppIdx][epOpponentPawnLocation])]
                 ELSE st
    IN  [taken EXCEPT
            !.oldEpCaptureSquare = oldEpCaptureSquare,
            !.b.enpassant = IF st.pieceType = Pawn /\ st.toLoc + 2 * epDelta = st.fromLoc
                            THEN (st.toLoc + epDelta) % 256 ELSE @]

\* specialEnPassant with a defect: the capture is recorded with the
\* destination as its place, and the pawn behind it stays on the board
specialEnPassant_PawnLeftBehind(st) ==
    LET epDelta == epDeltas[st.ourCol]
        oldEpCaptureSquare == st.b.enpassant
        isEp == st.pieceType = Pawn /\ st.toLoc = oldEpCaptureSquare /\ oldEpCaptureSquare # 0
        taken == IF isEp
                 THEN [st EXCEPT !.bs.CapturePiece = Pawn,
                                 !.bs.CaptureBb = st.b.Bbs[st.oppCol][Pawn]]
                 ELSE st
    IN  [taken EXCEPT
            !.oldEpCaptureSquare = oldEpCaptureSquare,
            !.b.enpassant = IF st.pieceType = Pawn /\ st.toLoc + 2 * epDelta = st.fromLoc
                            THEN (st.toLoc + epDelta) % 256 ELSE 0]

\* MakeSpecialMove: an en-passant capture strips the opponent pawn; then the
\* en-passant square is updated
specialEnPassant(st) ==
    LET epDelta == epDeltas[st.ourCol]
        oppIdx == piecesPawnZobristIndexes[st.oppCol]
        oldEpCaptureSquare == st.b.enpassant
        isEp == st.pieceType = Pawn /\ st.toLoc = oldEpCaptureSquare /\ oldEpCaptureSquare # 0
        epOpponentPawnLocation == (oldEpCaptureSquare + epDelta) % 256
        taken == IF isEp
                 THEN [st EXCEPT
                          !.bs.CapturePiece = Pawn,
                          !.bs.CaptureLoc = epOpponentPawnLocation,
                          !.bs.CaptureBb = st.b.Bbs[st.oppCol][Pawn],
                          !.b = hashXor(removePiece(@, st.oppCol, Pawn, epOpponentPawnLocation),
                                        pieceSquareZobristC[oppIdx][epOpponentPawnLocation])]
                 ELSE st
    IN  [taken EXCEPT
            !.oldEpCaptureSquare = oldEpCaptureSquare,
            !.b.enpassant = IF st.pieceType = Pawn /\ st.toLoc + 2 * epDelta = st.fromLoc
                            THEN (st.toLoc + epDelta) % 256 ELSE 0]

\* MakeSpecialMove: the promotion piece, then the captured piece comes off
specialCapture(st) ==
    LET oppIdx == piecesPawnZobristIndexes[st.oppCol]
        promotedToPieceType == IF st.promote \in {Queen, Knight, Rook, Bishop}
                               THEN st.promote ELSE st.pieceType
        capturedPieceType == PieceAt(st.b, st.toLoc)
        noted == [st EXCEPT !.promotedToPieceType = promotedToPieceType,
                            !.capturedPieceType = capturedPieceType,
                            !.bs.ToPiece = promotedToPieceType,
                            !.bs.ToBb = st.b.Bbs[st.ourCol][promotedToPieceType]]
    IN  IF capturedPieceType = Nothing THEN noted
        ELSE [noted EXCEPT
                 !.bs.CapturePiece = capturedPieceType,
                 !.bs.CaptureBb = st.b.Bbs[st.oppCol][capturedPieceType],
                 !.b = hashXor(removePiece(@, st.oppCol, capturedPieceType, st.toLoc),
                               pieceSquareZobristC[oppIdx + (capturedPieceType - 1)][st.toLoc])]

\* MakeSpecialMove: move the piece, strip the rights of a captured rook,
\* flip the side to move, swap the en-passant squares in the hash
specialPlace(st) ==
    LET ourIdx == piecesPawnZobristIndexes[st.ourCol]
        placed == [st EXCEPT !.b = hashXor(hashXor(
                       movePiece(@, st.ourCol, st.pieceType, st.promotedToPieceType,
                                 st.fromLoc, st.toLoc),
                       pieceSquareZobristC[(st.pieceType - 1) + ourIdx][st.fromLoc]),
                       pieceSquareZobristC[(st.promotedToPieceType - 1) + ourIdx][st.toLoc])]
        stripped == [placed EXCEPT !.b = IF st.capturedPieceType = Rook
                                         THEN StripCapturedRookRights(@, st.toLoc) ELSE @]
    IN  [stripped EXCEPT
            !.b = [hashXor(hashXor(hashXor(@, whiteToMoveZobristC),
                                   BitsOfIndex(st.oldEpCaptureSquare)),
                           BitsOfIndex(st.b.enpassant))
                   EXCEPT !.Colortomove = oppColor(@)]]

MakeSpecialMove(b, m) ==
    LET st == specialPlace(specialCapture(specialEnPassant(
                  specialCastle(specialRights(specialSave(b, m))))))
    IN  [b |-> st.b, bs |-> st.bs]

MakeMove(b, m) == IF IsSimple(m) THEN MakeSimpleMove(b, m) ELSE MakeSpecialMove(b, m)

\* Restore with a defect: pieces[] is not given the captured piece back
Restore_CaptureForgotten(b, bs) ==
    LET oppCol == b.Colortomove
        ourCol == oppColor(oppCol)
        b1 == [b EXCEPT !.Colortomove = ourCol,
                        !.enpassant = bs.Enpassant,
                        !.Halfmoveclock = bs.Halfmoveclock,
                        !.Fullmoveno = (@ - ourCol) % 65536,
                        !.castlerights = bs.Castlerights]
        b2 == [b1 EXCEPT !.Bbs[ourCol][bs.ToPiece] = bs.ToBb, !.pieces[bs.ToLoc] = Nothing]
        b3 == [b2 EXCEPT !.Bbs[oppCol][bs.CapturePiece] = bs.CaptureBb]
        b4 == [b3 EXCEPT !.Bbs[ourCol][bs.FromPiece] = bs.FromBb,
                         !.pieces[bs.FromLoc] = bs.FromPiece]
        b5 == [b4 EXCEPT !.Bbs[ourCol][Rook] = bs.OurRookBb]
        \* unmove the castling rook - a nop for non-castling moves
        maybeRook == b5.pieces[bs.OurRookTo]
        b6 == [b5 EXCEPT !.pieces[bs.OurRookTo] = Nothing]
        b7 == [b6 EXCEPT !.pieces[bs.OurRookFrom] = maybeRook]
        b8 == [b7 EXCEPT !.Bbs[ourCol][All] = bs.OurAllBb]
    IN  [b8 EXCEPT !.Bbs[oppCol][All] = bs.OppAllBb, !.hash = bs.Hash]

\* Take back move
Restore(b, bs) ==
    LET oppCol == b.Colortomove
        ourCol == oppColor(oppCol)
        b1 == [b EXCEPT !.Colortomove = ourCol,
                        !.enpassant = bs.Enpassant,
                        !.Halfmoveclock = bs.Halfmoveclock,
                        !.Fullmoveno = (@ - ourCol) % 65536,
                        !.castlerights = bs.Castlerights]
        b2 == [b1 EXCEPT !.Bbs[ourCol][bs.ToPiece] = bs.ToBb, !.pieces[bs.ToLoc] = Nothing]
        b3 == [b2 EXCEPT !.Bbs[oppCol][bs.CapturePiece] = bs.CaptureBb,
                         !.pieces[bs.CaptureLoc] = bs.CapturePiece]
        b4 == [b3 EXCEPT !.Bbs[ourCol][bs.FromPiece] = bs.FromBb,
                         !.pieces[bs.FromLoc] = bs.FromPiece]
        b5 == [b4 EXCEPT !.Bbs[ourCol][Rook] = bs.OurRookBb]
        \* unmove the castling rook - a nop for non-castling moves
        maybeRook == b5.pieces[bs.OurRookTo]
        b6 == [b5 EXCEPT !.pieces[bs.OurRookTo] = Nothing]
        b7 == [b6 EXCEPT !.pieces[bs.OurRookFrom] = maybeRook]
        b8 == [b7 EXCEPT !.Bbs[ourCol][All] = bs.OurAllBb]
    IN  [b8 EXCEPT !.Bbs[oppCol][All] = bs.OppAllBb, !.hash = bs.Hash]

\* ApplyNullMove2 with a defect: the en-passant square stays in the hash
ApplyNullMove2_EpLeftInHash(b) ==
    LET oldEpCaptureSquare == b.enpassant
        b1 == [b EXCEPT !.enpassant = 0]
    IN  [b |-> [hashXor(b1, whiteToMoveZobristC) EXCEPT !.Colortomove = oppColor(b1.Colortomove)],
         oldEp |-> oldEpCaptureSquare]

\* result: [b |-> the board after the null move, oldEp |-> the value the closure captures]
ApplyNullMove2(b) ==
    LET oldEpCaptureSquare == b.enpassant
        b1 == hashXor([b EXCEPT !.enpassant = 0], BitsOfIndex(oldEpCaptureSquare))
    IN  [b |-> [hashXor(b1, whiteToMoveZobristC) EXCEPT !.Colortomove = oppColor(b1.Colortomove)],
         oldEp |-> oldEpCaptureSquare]

\* Unapply with a defect: the en-passant square is put back into the hash but
\* not into the board
Unapply_EpNotRestored(b, oldEpCaptureSquare) ==
    LET b1 == [hashXor(b, whiteToMoveZobristC) EXCEPT !.Colortomove = oppColor(b.Colortomove)]
    IN  hashXor(b1, BitsOfIndex(oldEpCaptureSquare))

\* the closure moveInfo.Unapply
Unapply(b, oldEpCaptureSquare) ==
    LET b1 == [hashXor(b, whiteToMoveZobristC) EXCEPT !.Colortomove = oppColor(b.Colortomove)]
    IN  [hashXor(b1, BitsOfIndex(oldEpCaptureSquare)) EXCEPT !.enpassant = oldEpCaptureSquare]

(* --------------------------- move generator --------------------------- *)
promoRankBbs == [c \in 0 .. 1 |-> IF c = White THEN onlyRank[7] ELSE onlyRank[0]]
doublePushRankBBs == [c \in 0 .. 1 |-> IF c = White THEN onlyRank[3] ELSE onlyRank[4]]
pawnPushDirections == [c \in 0 .. 1 |-> IF c = White THEN 1 ELSE -1]
oneRankBacks == [c \in 0 .. 1 |-> IF c = White THEN -8 ELSE 8]

allPiecesOf(b) == b.Bbs[White][All] \cup b.Bbs[Black][All]

\* countAttacks keeps its running numAttacks and blockerDestinations in the
\* record a; a.returned says that one of the
\*   if numAttacks >= abortEarly { return numAttacks, blockerDestinations }
\* has been taken, after which nothing is added
tallyAttackers(a, attackers) ==
    IF a.returned THEN a
    ELSE [a EXCEPT !.numAttacks = @ + OnesCount64(attackers),
                   !.blockerDestinations = @ \cup attackers,
                   !.returned = a.numAttacks + OnesCount64(attackers) >= a.abortEarly]

\* "If we found ... attackers, add interposed squares to the blocker mask"
addAttackRays(a, attackRays) ==
    IF a.returned THEN a ELSE [a EXCEPT !.blockerDestinations = @ \cup attackRays]

\* diagonalAttackers with a defect: the queens are left out
diagonalAttackers_BishopsOnly(a, allPieces, origin_diag_rays) ==
    LET diag_attackers == origin_diag_rays \cap a.oppPieces[Bishop]
    IN  addAttackRays(tallyAttackers(a, diag_attackers),
            UNION {CalculateBishopMoveBitboard(curr_attacker, allPieces) \cap origin_diag_rays :
                      curr_attacker \in diag_attackers})

\* attacking bishops and queens
diagonalAttackers(a, allPieces, origin_diag_rays) ==
    LET diag_attackers == origin_diag_rays \cap (a.oppPieces[Bishop] \cup a.oppPieces[Queen])
    IN  addAttackRays(tallyAttackers(a, diag_attackers),
            UNION {CalculateBishopMoveBitboard(curr_attacker, allPieces) \cap origin_diag_rays :
                      curr_attacker \in diag_attackers})

\* attacking rooks and queens
orthogonalAttackers(a, allPieces, origin_ortho_rays) ==
    LET ortho_attackers == origin_ortho_rays \cap (a.oppPieces[Rook] \cup a.oppPieces[Queen])
    IN  addAttackRays(tallyAttackers(a, ortho_attackers),
            UNION {CalculateRookMoveBitboard(curr_attacker, allPieces) \cap origin_ortho_rays :
                      curr_attacker \in ortho_attackers})

\* result: the record with the fields numAttacks and blockerDestinations
countAttacks(b, byBlack, origin, abortEarly) ==
    LET oppPieces == IF byBlack THEN b.Bbs[Black] ELSE b.Bbs[White]
        allPieces == allPiecesOf(b)
        \* attacking pawns (origin is a uint8: origin-7 >= 0 always holds)
        pawn_attackers_mask ==
            (IF byBlack
             THEN (Bit(origin + 7) \ onlyFile[7]) \cup (Bit(origin + 9) \ onlyFile[0])
             ELSE (Bit(origin - 7) \ onlyFile[0]) \cup (Bit(origin - 9) \ onlyFile[7]))
            \cap oppPieces[Pawn]
    IN  tallyAttackers(
          tallyAttackers(
            orthogonalAttackers(
              diagonalAttackers(
                tallyAttackers(
                  [oppPieces |-> oppPieces, abortEarly |-> abortEarly,
                   numAttacks |-> 0, blockerDestinations |-> {}, returned |-> FALSE],
                  knightMasks[origin] \cap oppPieces[Knight]),
                allPieces,
                magicMovesBishop(origin, magicBishopBlockerMasks[origin] \cap allPieces)),
              allPieces,
              magicMovesRook(origin, magicRookBlockerMasks[origin] \cap allPieces)),
            kingMasks[origin] \cap oppPieces[King]),
          pawn_attackers_mask)

UnderDirectAttack(b, byBlack, origin) == countAttacks(b, byBlack, origin, 1).numAttacks >= 1

\* anyUnderDirectAttack with a defect: only the first square is tested
anyUnderDirectAttack_FirstOnly(b, byBlack, squares) ==
    UnderDirectAttack(b, byBlack, squares[1])

anyUnderDirectAttack(b, byBlack, squares) ==
    \E i \in 1 .. Len(squares) : UnderDirectAttack(b, byBlack, squares[i])

OurKingInCheck(b) ==
    countAttacks(b, b.Colortomove = White,
                 TrailingZeros64(b.Bbs[b.Colortomove][King]), 1).numAttacks >= 1

\* converts a targets bitboard into moves
genMovesFromTargets(origin, targets) ==
    LET ts == BitsAscending(targets)
    IN  [i \in 1 .. Len(ts) |-> Setto(Setfrom(0, origin), ts[i])]

\* the four promotions of a move, Knight .. Queen
\* Promotions with a defect: only the queen is offered
Promotions_QueenOnly(move) == <<Setpromote(move, Queen)>>

Promotions(move) == [i \in 1 .. 4 |-> Setpromote(move, Knight + i - 1)]

\* equality of the two float32 slopes (y1/8 - y0/8) / (x1 - x0): a zero
\* denominator gives an infinity, equal only to an infinity of the same sign
SlopeEqual(pinnedPieceIdx, ourKingIdx, currBishopIdx) ==
    LET n1 == pinnedPieceIdx - currBishopIdx
        d1 == (pinnedPieceIdx % 8) - (currBishopIdx % 8)
        n2 == ourKingIdx - currBishopIdx
        d2 == (ourKingIdx % 8) - (currBishopIdx % 8)
    IN  IF d1 # 0 /\ d2 # 0 THEN n1 * d2 = n2 * d1
        ELSE IF d1 = 0 /\ d2 = 0 THEN n1 # 0 /\ n2 # 0 /\ (n1 > 0) = (n2 > 0)
        ELSE FALSE

\* The generators append to the move list and work on the board of the record
\* g = [b |-> the receiver, moves |-> *moveList, pinned |-> allPinnedPieces].
moveList(b) == [b |-> b, moves |-> <<>>, pinned |-> {}]

\* rookPin with a defect: the single push of a pawn pinned on its file does
\* not look at the square ahead
rookPin_PushOntoPieces(g, allowDest, currRookIdx, kingOrthoTargets, rookTargets) ==
    LET ourCol == g.b.Colortomove
        ourPieces == g.b.Bbs[ourCol]
        allPieces == allPiecesOf(g.b)
        ourKingIdx == TrailingZeros64(ourPieces[King])
        pawnPushDirection == pawnPushDirections[ourCol]
        pinnedPiece == rookTargets \cap kingOrthoTargets \cap ourPieces[All]
        pinnedPieceIdx == TrailingZeros64(pinnedPiece)
        sameRank == pinnedPieceIdx \div 8 = ourKingIdx \div 8
                    /\ pinnedPieceIdx \div 8 = currRookIdx \div 8
        sameFile == pinnedPieceIdx % 8 = ourKingIdx % 8
                    /\ pinnedPieceIdx % 8 = currRookIdx % 8
        single == Bit(pinnedPieceIdx + 8 * pawnPushDirection)
        pawnTargets ==
            (IF single # {}
             THEN single \cup ((Bit(pinnedPieceIdx + 16 * pawnPushDirection) \ allPieces)
                               \cap doublePushRankBBs[ourCol])
             ELSE single) \cap allowDest
        \* all ortho moves, as if it was not pinned, cut to the available ones
        pinnedTargets == (CalculateRookMoveBitboard(pinnedPieceIdx, allPieces) \ ourPieces[All])
                         \cap (rookTargets \cup kingOrthoTargets \cup Bit(currRookIdx))
                         \cap allowDest
    IN  IF pinnedPiece = {} THEN g
        ELSE IF ~sameRank /\ ~sameFile THEN g
        ELSE [g EXCEPT
                 !.pinned = @ \cup pinnedPiece,
                 !.moves =
                     IF pinnedPiece \cap ourPieces[Pawn] # {}
                     THEN (IF sameFile
                           THEN @ \o genMovesFromTargets(pinnedPieceIdx, pawnTargets) ELSE @)
                     ELSE IF pinnedPiece \cap ourPieces[Rook] = {}
                             /\ pinnedPiece \cap ourPieces[Queen] = {}
                     THEN @
                     ELSE @ \o genMovesFromTargets(pinnedPieceIdx, pinnedTargets)]

\* the body of the loop over the opponent's orthogonal sliders, from the test
\* for a pin on
rookPin(g, allowDest, currRookIdx, kingOrthoTargets, rookTargets) ==
    LET ourCol == g.b.Colortomove
        ourPieces == g.b.Bbs[ourCol]
        allPieces == allPiecesOf(g.b)
        ourKingIdx == TrailingZeros64(ourPieces[King])
        pawnPushDirection == pawnPushDirections[ourCol]
        pinnedPiece == rookTargets \cap kingOrthoTargets \cap ourPieces[All]
        pinnedPieceIdx == TrailingZeros64(pinnedPiece)
        sameRank == pinnedPieceIdx \div 8 = ourKingIdx \div 8
                    /\ pinnedPieceIdx \div 8 = currRookIdx \div 8
        sameFile == pinnedPieceIdx % 8 = ourKingIdx % 8
                    /\ pinnedPieceIdx % 8 = currRookIdx % 8
        single == Bit(pinnedPieceIdx + 8 * pawnPushDirection) \ allPieces
        pawnTargets ==
            (IF single # {}
             THEN single \cup ((Bit(pinnedPieceIdx + 16 * pawnPushDirection) \ allPieces)
                               \cap doublePushRankBBs[ourCol])
             ELSE single) \cap allowDest
        \* all ortho moves, as if it was not pinned, cut to the available ones
        pinnedTargets == (CalculateRookMoveBitboard(pinnedPieceIdx, allPieces) \ ourPieces[All])
                         \cap (rookTargets \cup kingOrthoTargets \cup Bit(currRookIdx))
                         \cap allowDest
    IN  IF pinnedPiece = {} THEN g
        ELSE IF ~sameRank /\ ~sameFile THEN g
        ELSE [g EXCEPT
                 !.pinned = @ \cup pinnedPiece,
                 !.moves =
                     IF pinnedPiece \cap ourPieces[Pawn] # {}
                     THEN (IF sameFile
                           THEN @ \o genMovesFromTargets(pinnedPieceIdx, pawnTargets) ELSE @)
                     ELSE IF pinnedPiece \cap ourPieces[Rook] = {}
                             /\ pinnedPiece \cap ourPieces[Queen] = {}
                     THEN @
                     ELSE @ \o genMovesFromTargets(pinnedPieceIdx, pinnedTargets)]

\* the loop over the opponent's orthogonal sliders, lowest square first
RECURSIVE rookPins(_, _, _, _)
rookPins(g, allowDest, oppRooks, kingOrthoTargets) ==
    IF oppRooks = <<>> THEN g
    ELSE rookPins(
             rookPin(g, allowDest, Head(oppRooks), kingOrthoTargets,
                     CalculateRookMoveBitboard(Head(oppRooks), allPiecesOf(g.b))
                         \ g.b.Bbs[oppColor(g.b.Colortomove)][All]),
             allowDest, Tail(oppRooks), kingOrthoTargets)

\* the body of the loop over the opponent's diagonal sliders
bishopPin(g, allowDest, currBishopIdx, kingDiagTargets, bishopTargets) ==
    LET ourCol == g.b.Colortomove
        ourPieces == g.b.Bbs[ourCol]
        allPieces == allPiecesOf(g.b)
        ourKingIdx == TrailingZeros64(ourPieces[King])
        pinnedPiece == bishopTargets \cap kingDiagTargets \cap ourPieces[All]
        pinnedPieceIdx == TrailingZeros64(pinnedPiece)
        move == Setto(Setfrom(0, pinnedPieceIdx), currBishopIdx)
        \* a pinned pawn may capture the pinning piece
        pawnMoves ==
            IF Bit(currBishopIdx) \cap allowDest # {}
               /\ \/ ourCol = White /\ (pinnedPieceIdx \div 8) + 1 = currBishopIdx \div 8
                  \/ ourCol = Black /\ pinnedPieceIdx \div 8 = (currBishopIdx \div 8) + 1
            THEN IF Bit(currBishopIdx) \cap promoRankBbs[ourCol] # {}
                 THEN Promotions(move) ELSE <<move>>
            ELSE <<>>
        pinnedTargets == (CalculateBishopMoveBitboard(pinnedPieceIdx, allPieces) \ ourPieces[All])
                         \cap (bishopTargets \cup kingDiagTargets \cup Bit(currBishopIdx))
                         \cap allowDest
    IN  IF pinnedPiece = {} THEN g
        ELSE IF ~SlopeEqual(pinnedPieceIdx, ourKingIdx, currBishopIdx) THEN g
        ELSE [g EXCEPT
                 !.pinned = @ \cup pinnedPiece,
                 !.moves =
                     IF pinnedPiece \cap ourPieces[Pawn] # {} THEN @ \o pawnMoves
                     ELSE IF pinnedPiece \cap ourPieces[Bishop] = {}
                             /\ pinnedPiece \cap ourPieces[Queen] = {}
                     THEN @
                     ELSE @ \o genMovesFromTargets(pinnedPieceIdx, pinnedTargets)]

\* the loop over the opponent's diagonal sliders, lowest square first
RECURSIVE bishopPins(_, _, _, _)
bishopPins(g, allowDest, oppBishops, kingDiagTargets) ==
    IF oppBishops = <<>> THEN g
    ELSE bishopPins(
             bishopPin(g, allowDest, Head(oppBishops), kingDiagTargets,
                       CalculateBishopMoveBitboard(Head(oppBishops), allPiecesOf(g.b))
                           \ g.b.Bbs[oppColor(g.b.Colortomove)][All]),
             allowDest, Tail(oppBishops), kingDiagTargets)

\* appends the moves of the absolutely pinned pieces; g.pinned is the result
generatePinnedMoves(g, allowDest) ==
    LET oppPieces == g.b.Bbs[oppColor(g.b.Colortomove)]
        ourKingIdx == TrailingZeros64(g.b.Bbs[g.b.Colortomove][King])
        allPieces == allPiecesOf(g.b)
    IN  bishopPins(
            rookPins(g, allowDest, BitsAscending(oppPieces[Rook] \cup oppPieces[Queen]),
                     CalculateRookMoveBitboard(ourKingIdx, allPieces)),
            allowDest, BitsAscending(oppPieces[Bishop] \cup oppPieces[Queen]),
            CalculateBishopMoveBitboard(ourKingIdx, allPieces))

\* pawnPushBitboards with a defect: no double pushes
pawnPushBitboards_NoDoublePush(b, nonpinned) ==
    LET free == Not(b.Bbs[White][All]) \cap Not(b.Bbs[Black][All])
        movablePawns == b.Bbs[b.Colortomove][Pawn] \cap nonpinned
    IN  <<IF b.Colortomove = White
          THEN Shl(movablePawns, 8) \cap free
          ELSE Shr(movablePawns, 8) \cap free, {}>>

\* a helper that produces the bitboards of valid pawn push locations
pawnPushBitboards(b, nonpinned) ==
    LET free == Not(b.Bbs[White][All]) \cap Not(b.Bbs[Black][All])
        movablePawns == b.Bbs[b.Colortomove][Pawn] \cap nonpinned
        targets == IF b.Colortomove = White
                   THEN Shl(movablePawns, 8) \cap free
                   ELSE Shr(movablePawns, 8) \cap free
        doubleTargets == IF b.Colortomove = White
                         THEN Shl(targets, 8) \cap onlyRank[3] \cap free
                         ELSE Shr(targets, 8) \cap onlyRank[4] \cap free
    IN  <<targets, doubleTargets>>

pawnPushes(g, nonpinned, allowDest) ==
    LET bbs == pawnPushBitboards(g.b, nonpinned)
        oneRankBack == oneRankBacks[g.b.Colortomove]
        targets == BitsAscending(bbs[1] \cap allowDest)
        doubleTargets == BitsAscending(bbs[2] \cap allowDest)
        canPromote(target) == IF g.b.Colortomove = White THEN target >= 56 ELSE target <= 7
        single(target) ==
            IF canPromote(target)
            THEN Promotions(Setto(Setfrom(0, target + oneRankBack), target))
            ELSE <<Setto(Setfrom(0, target + oneRankBack), target)>>
    IN  [g EXCEPT !.moves =
            @ \o Flatten([i \in 1 .. Len(targets) |-> single(targets[i])])
              \o [i \in 1 .. Len(doubleTargets) |->
                    Setto(Setfrom(0, doubleTargets[i] + 2 * oneRankBack), doubleTargets[i])]]

\* a helper that generates the bitboards of available pawn captures: <<east, west>>
pawnCaptureBitboards(b, nonpinned) ==
    LET notHFile == Not(onlyFile[7])
        notAFile == Not(onlyFile[0])
        ourPieces == b.Bbs[b.Colortomove]
        oppPieces == b.Bbs[oppColor(b.Colortomove)]
        targets == oppPieces[All] \cup (IF b.enpassant > 0 THEN Bit(b.enpassant) ELSE {})
        ourpawns == ourPieces[Pawn] \cap nonpinned
    IN  IF b.Colortomove = White
        THEN <<Shl(ourpawns, 9) \cap notAFile \cap targets,
               Shl(ourpawns, 7) \cap notHFile \cap targets>>
        ELSE <<Shr(ourpawns, 7) \cap notAFile \cap targets,
               Shr(ourpawns, 9) \cap notHFile \cap targets>>

\* the en-passant capture applied to the bitboards, as pawnCaptures does before
\* it asks whether our king is in check
EpApplied(b, move) ==
    LET ourCol == b.Colortomove
        oppCol == oppColor(ourCol)
        enpassantEnemy == (To(move) + oneRankBacks[ourCol]) % 256
    IN  [b EXCEPT !.Bbs[ourCol][Pawn] = (@ \ Bit(From(move))) \cup Bit(To(move)),
                  !.Bbs[ourCol][All] = (@ \ Bit(From(move))) \cup Bit(To(move)),
                  !.Bbs[oppCol][Pawn] = @ \ Bit(enpassantEnemy),
                  !.Bbs[oppCol][All] = @ \ Bit(enpassantEnemy)]

\* EpUnapplied with a defect: the captured pawn is not put back
EpUnapplied_EnemyForgotten(b, move) ==
    LET ourCol == b.Colortomove
    IN  [b EXCEPT !.Bbs[ourCol][Pawn] = (@ \cup Bit(From(move))) \ Bit(To(move)),
                  !.Bbs[ourCol][All] = (@ \cup Bit(From(move))) \ Bit(To(move))]

\* ... and unapplied again, bit by bit
EpUnapplied(b, move) ==
    LET ourCol == b.Colortomove
        oppCol == oppColor(ourCol)
        enpassantEnemy == (To(move) + oneRankBacks[ourCol]) % 256
    IN  [b EXCEPT !.Bbs[ourCol][Pawn] = (@ \cup Bit(From(move))) \ Bit(To(move)),
                  !.Bbs[ourCol][All] = (@ \cup Bit(From(move))) \ Bit(To(move)),
                  !.Bbs[oppCol][Pawn] = @ \cup Bit(enpassantEnemy),
                  !.Bbs[oppCol][All] = @ \cup Bit(enpassantEnemy)]

\* epCaptureTried with a defect: the capture is kept whatever the test says
epCaptureTried_NeverRejected(g, emitted, move, applied) ==
    [g EXCEPT !.b = EpUnapplied(applied, move),
              !.moves = @ \o emitted]

\* the en-passant capture is tried on the board applied, the board is put
\* back, and the move is kept unless our king was in check
epCaptureTried(g, emitted, move, applied) ==
    [g EXCEPT !.b = EpUnapplied(applied, move),
              !.moves = IF OurKingInCheck(applied) THEN @ ELSE @ \o emitted]

\* the body of the inner loop of pawnCaptures for one target of direction dir
pawnCapture(g, dir, target) ==
    LET white == g.b.Colortomove = White
        move == IF white
                THEN Setfrom(Setto(0, target), target - (9 - (dir * 2)))
                ELSE Setfrom(Setto(0, target), target + (9 - (dir * 2)))
        canPromote == IF white THEN target >= 56 ELSE target <= 7
        emitted == IF canPromote THEN Promotions(move) ELSE <<move>>
    IN  IF target = g.b.enpassant /\ g.b.enpassant # 0
        THEN epCaptureTried(g, emitted, move, EpApplied(g.b, move))
        ELSE [g EXCEPT !.moves = @ \o emitted]

\* the inner loop of pawnCaptures: the targets of one direction, lowest first
RECURSIVE pawnCapturesTo(_, _, _)
pawnCapturesTo(g, dir, targets) ==
    IF targets = <<>> THEN g
    ELSE pawnCapturesTo(pawnCapture(g, dir, Head(targets)), dir, Tail(targets))

pawnCaptures(g, nonpinned, allowDest0) ==
    LET bbs == pawnCaptureBitboards(g.b, nonpinned)
        \* always allow us to try en-passant captures
        allowDest == allowDest0 \cup (IF g.b.enpassant > 0 THEN Bit(g.b.enpassant) ELSE {})
        east == BitsAscending(bbs[1] \cap allowDest)
        west == BitsAscending(bbs[2] \cap allowDest)
    IN  IF g.b.Colortomove = Black
        THEN pawnCapturesTo(pawnCapturesTo(g, 0, west), 1, east)
        ELSE pawnCapturesTo(pawnCapturesTo(g, 0, east), 1, west)

knightMoves(g, nonpinned, allowDest) ==
    LET ourPieces == g.b.Bbs[g.b.Colortomove]
        ourKnights == BitsAscending(ourPieces[Knight] \cap nonpinned)
        noFriendlyPieces == Not(ourPieces[All])
    IN  [g EXCEPT !.moves = @ \o Flatten([i \in 1 .. Len(ourKnights) |->
            genMovesFromTargets(ourKnights[i],
                knightMasks[ourKnights[i]] \cap noFriendlyPieces \cap allowDest)])]

\* the moves of the king from ourKingLocation to the targets not under attack
\* on the board without our king
safeKingMoves(lifted, ourKingLocation, targets) ==
    LET safe == SelectSeq(targets,
                    LAMBDA t : ~UnderDirectAttack(lifted, lifted.Colortomove = White, t))
    IN  [i \in 1 .. Len(safe) |-> Setto(Setfrom(0, ourKingLocation), safe[i])]

\* kingPushes with a defect: the king stays on the board while the targets
\* are tested, so it shields the squares behind it from a checking slider
kingPushes_KingNotLifted(g, allowDest) ==
    LET ourCol == g.b.Colortomove
        ourKingLocation == TrailingZeros64(g.b.Bbs[ourCol][King])
        noFriendlyPieces == Not(g.b.Bbs[ourCol][All])
        targets == BitsAscending(kingMasks[ourKingLocation] \cap noFriendlyPieces \cap allowDest)
    IN  [g EXCEPT !.moves = @ \o safeKingMoves(g.b, ourKingLocation, targets)]

\* king moves excluding castling; the king is taken off the board while the
\* targets are tested
kingPushes(g, allowDest) ==
    LET ourCol == g.b.Colortomove
        ourKingLocation == TrailingZeros64(g.b.Bbs[ourCol][King])
        noFriendlyPieces == Not(g.b.Bbs[ourCol][All])
        oldKings == g.b.Bbs[ourCol][King]
        lifted == [g.b EXCEPT !.Bbs[ourCol][King] = {},
                              !.Bbs[ourCol][All] = @ \ Bit(ourKingLocation)]
        targets == BitsAscending(kingMasks[ourKingLocation] \cap noFriendlyPieces \cap allowDest)
    IN  [g EXCEPT !.moves = @ \o safeKingMoves(lifted, ourKingLocation, targets),
                  !.b.Bbs[ourCol][King] = oldKings,
                  !.b.Bbs[ourCol][All] = (@ \ Bit(ourKingLocation)) \cup Bit(ourKingLocation)]

\* kingMoves with a defect: castling is never listed
kingMoves_NoCastling(g, allowDest, includeCastling) == kingPushes(g, allowDest)

\* castling moves (if any), then the king pushes
kingMoves(g, allowDest, includeCastling) ==
    LET b == g.b
        ourKingLocation == TrailingZeros64(b.Bbs[b.Colortomove][King])
        allPieces == allPiecesOf(b)
        white == b.Colortomove = White
        kingsideClear == IF white THEN allPieces \cap {5, 6} = {}
                         ELSE allPieces \cap {61, 62} = {}
        queensideClear == IF white THEN allPieces \cap {3, 2, 1} = {}
                          ELSE allPieces \cap {57, 58, 59} = {}
        canCastleQueenside ==
            IF white
            THEN canCastle(b, White, Queenside) /\ queensideClear
                 /\ ~anyUnderDirectAttack(b, TRUE, <<2, 3>>)
            ELSE canCastle(b, Black, Queenside) /\ queensideClear
                 /\ ~anyUnderDirectAttack(b, FALSE, <<58, 59>>)
        canCastleKingside ==
            IF white
            THEN canCastle(b, White, Kingside) /\ kingsideClear
                 /\ ~anyUnderDirectAttack(b, TRUE, <<5, 6>>)
            ELSE canCastle(b, Black, Kingside) /\ kingsideClear
                 /\ ~anyUnderDirectAttack(b, FALSE, <<61, 62>>)
        castles ==
            IF includeCastling
            THEN (IF canCastleKingside
                  THEN <<Setto(Setfrom(0, ourKingLocation), (ourKingLocation + 2) % 256)>>
                  ELSE <<>>)
                 \o (IF canCastleQueenside
                     THEN <<Setto(Setfrom(0, ourKingLocation), (ourKingLocation - 2) % 256)>>
                     ELSE <<>>)
            ELSE <<>>
    IN  kingPushes([g EXCEPT !.moves = @ \o castles], allowDest)

rookMoves(g, nonpinned, allowDest) ==
    LET ourPieces == g.b.Bbs[g.b.Colortomove]
        ourRooks == BitsAscending(ourPieces[Rook] \cap nonpinned)
        friendlyPieces == ourPieces[All]
        allPieces == allPiecesOf(g.b)
    IN  [g EXCEPT !.moves = @ \o Flatten([i \in 1 .. Len(ourRooks) |->
            genMovesFromTargets(ourRooks[i],
                (CalculateRookMoveBitboard(ourRooks[i], allPieces) \ friendlyPieces)
                    \cap allowDest)])]

bishopMoves(g, nonpinned, allowDest) ==
    LET ourPieces == g.b.Bbs[g.b.Colortomove]
        ourBishops == BitsAscending(ourPieces[Bishop] \cap nonpinned)
        friendlyPieces == ourPieces[All]
        allPieces == allPiecesOf(g.b)
    IN  [g EXCEPT !.moves = @ \o Flatten([i \in 1 .. Len(ourBishops) |->
            genMovesFromTargets(ourBishops[i],
                (CalculateBishopMoveBitboard(ourBishops[i], allPieces) \ friendlyPieces)
                    \cap allowDest)])]

queenMoves(g, nonpinned, allowDest) ==
    LET ourPieces == g.b.Bbs[g.b.Colortomove]
        ourQueens == BitsAscending(ourPieces[Queen] \cap nonpinned)
        friendlyPieces == ourPieces[All]
        allPieces == allPiecesOf(g.b)
        diag_targets(q) == (CalculateBishopMoveBitboard(q, allPieces) \ friendlyPieces)
                           \cap allowDest
        ortho_targets(q) == (CalculateRookMoveBitboard(q, allPieces) \ friendlyPieces)
                            \cap allowDest
    IN  [g EXCEPT !.moves = @ \o Flatten([i \in 1 .. Len(ourQueens) |->
            genMovesFromTargets(ourQueens[i], diag_targets(ourQueens[i]))
            \o genMovesFromTargets(ourQueens[i], ortho_targets(ourQueens[i]))])]

\* the moves of the pieces that are not pinned, in the order the entry point
\* calls the generators
NonPinnedMoves(g, nonpinnedPieces, pushDest, allowDest) ==
    queenMoves(
      bishopMoves(
        rookMoves(
          knightMoves(
            pawnCaptures(
              pawnPushes(g, nonpinnedPieces, pushDest),
              nonpinnedPieces, allowDest),
            nonpinnedPieces, allowDest),
          nonpinnedPieces, allowDest),
        nonpinnedPieces, allowDest),
      nonpinnedPieces, allowDest)

\* unpinnedMoves with a defect: the pinned pieces are not excluded
unpinnedMoves_PinsIgnored(g, pushDest, allowDest) ==
    NonPinnedMoves(g, everything, pushDest, allowDest)

\* nonpinnedPieces := ^pinnedPieces, then the generators of the other pieces
unpinnedMoves(g, pushDest, allowDest) == NonPinnedMoves(g, Not(g.pinned), pushDest, allowDest)

\* return moves, isInCheck; the board is the one the generator leaves behind
returnMoves(g, isInCheck) == [moves |-> g.moves, isInCheck |-> isInCheck, b |-> g.b]

\* single check: block the check, capture the checker or move the king
\* singleCheckMoves with a defect: the other pieces are not held to the
\* blocker mask
singleCheckMoves_BlockersIgnored(b, blockerDestinations) ==
    returnMoves(
        kingPushes(
            unpinnedMoves(generatePinnedMoves(moveList(b), everything), everything, everything),
            everything),
        TRUE)

singleCheckMoves(b, blockerDestinations) ==
    returnMoves(
        kingPushes(
            unpinnedMoves(generatePinnedMoves(moveList(b), blockerDestinations),
                          blockerDestinations, blockerDestinations),
            everything),
        TRUE)

\* noCheckMoves with a defect: the pawn pushes are restricted like every other
\* move, so a push onto the promotion rank is lost in only-noisy mode
noCheckMoves_PromoPushesFiltered(b, onlyCapturesPromosCheckEvasion) ==
    LET oppCol == oppColor(b.Colortomove)
        allowDest == IF onlyCapturesPromosCheckEvasion THEN b.Bbs[oppCol][All] ELSE everything
    IN  returnMoves(
            kingMoves(
                unpinnedMoves(generatePinnedMoves(moveList(b), allowDest),
                              allowDest, allowDest),
                allowDest, ~onlyCapturesPromosCheckEvasion),
            FALSE)

\* no check: pinned pieces, then ordinary moves, then the king with castling
noCheckMoves(b, onlyCapturesPromosCheckEvasion) ==
    LET oppCol == oppColor(b.Colortomove)
        allowDest == IF onlyCapturesPromosCheckEvasion THEN b.Bbs[oppCol][All] ELSE everything
        \* always generate pawn promos
        promoDest == promoRankBbs[b.Colortomove]
    IN  returnMoves(
            kingMoves(
                unpinnedMoves(generatePinnedMoves(moveList(b), allowDest),
                              allowDest \cup promoDest, allowDest),
                allowDest, ~onlyCapturesPromosCheckEvasion),
            FALSE)

\* multipleAttackMoves with a defect: a double check is handled like a single
\* check whose checker may be captured or blocked anywhere
multipleAttackMoves_AsSingleCheck(b) == singleCheckMoves(b, everything)

\* under multiple attack, we must move the king
multipleAttackMoves(b) == returnMoves(kingPushes(moveList(b), everything), TRUE)

\* the three cases of GenerateLegalMoves2 for the attacks countAttacks found
movesUnderAttacks(b, onlyCapturesPromosCheckEvasion, attacks) ==
    IF attacks.numAttacks >= 2
    THEN multipleAttackMoves(b)
    ELSE IF attacks.numAttacks = 1
    THEN singleCheckMoves(b, attacks.blockerDestinations)
    ELSE noCheckMoves(b, onlyCapturesPromosCheckEvasion)

\* result: [moves |-> the move list, isInCheck |-> the flag,
\*          b |-> the board as the generator leaves it]
GenerateLegalMoves2(b, onlyCapturesPromosCheckEvasion) ==
    movesUnderAttacks(b, onlyCapturesPromosCheckEvasion,
        countAttacks(b, b.Colortomove = White,
                     TrailingZeros64(b.Bbs[b.Colortomove][King]), 2))

GenerateLegalMoves(b) == GenerateLegalMoves2(b, FALSE).moves

(* ------------------------------ the system ---------------------------- *)
VARIABLES
    b,       \* the Board
    saves,   \* the caller's stack of take-back records, newest last
    gen,     \* what GenerateLegalMoves2 last returned for b, or NoGen
    undone,  \* the stack entry taken back by the last step, or NoSave
    initial, \* the parsed position the run started from
    walk     \* the perft walk's depth and leaf count, NoWalk outside a walk

vars == <<b, saves, gen, undone, initial, walk>>

MaxPly == 2

NoGen == [made |-> FALSE]
NoSave == [kind |-> "none"]
NoWalk == [depth |-> 0, leaves |-> 0]

\* the piece placement field of a FEN record, from <<square, colour, kind>> triples
At(pcs) ==
    [i \in Squares |->
        IF \E p \in pcs : p[1] = i
        THEN LET p == CHOOSE q \in pcs : q[1] = i IN <<p[2], p[3]>>
        ELSE <<White, Nothing>>]

StartPositions ==
    <<
      \* 4k2r/8/8/8/8/8/8/R3K3 w Qk - 0 1
      [placement |-> At({<<0, 0, 4>>, <<4, 0, 6>>, <<60, 1, 6>>, <<63, 1, 4>>}),
       side |-> 0, castle |-> {<<0, 0>>, <<1, 1>>}, ep |-> 0, halfmove |-> 0, fullmove |-> 1],
      \* 6k1/8/8/8/8/p6n/P7/R3K2R w KQ - 3 10
      [placement |-> At({<<0, 0, 4>>, <<4, 0, 6>>, <<7, 0, 4>>, <<8, 0, 1>>, <<16, 1, 1>>, <<23, 1, 2>>, <<62, 1, 6>>}),
       side |-> 0, castle |-> {<<0, 1>>, <<0, 0>>}, ep |-> 0, halfmove |-> 3, fullmove |-> 10],
      \* 4k3/3p4/8/4P3/8/8/8/4K3 b - - 0 1
      [placement |-> At({<<4, 0, 6>>, <<36, 0, 1>>, <<51, 1, 1>>, <<60, 1, 6>>}),
       side |-> 1, castle |-> {}, ep |-> 0, halfmove |-> 0, fullmove |-> 1],
      \* 8/8/8/K2pP2r/8/8/8/7k w - d6 0 1
      [placement |-> At({<<7, 1, 6>>, <<32, 0, 6>>, <<35, 1, 1>>, <<36, 0, 1>>, <<39, 1, 4>>}),
       side |-> 0, castle |-> {}, ep |-> 43, halfmove |-> 0, fullmove |-> 1],
      \* 1n4k1/P7/5p2/3pP3/8/8/7P/4K2R w K d6 0 1
      [placement |-> At({<<4, 0, 6>>, <<7, 0, 4>>, <<15, 0, 1>>, <<35, 1, 1>>, <<36, 0, 1>>, <<45, 1, 1>>, <<48, 0, 1>>, <<57, 1, 2>>, <<62, 1, 6>>}),
       side |-> 0, castle |-> {<<0, 1>>}, ep |-> 43, halfmove |-> 0, fullmove |-> 1],
      \* 4k3/8/8/8/8/8/p7/1N2K3 b - - 0 1
      [placement |-> At({<<1, 0, 2>>, <<4, 0, 6>>, <<8, 1, 1>>, <<60, 1, 6>>}),
       side |-> 1, castle |-> {}, ep |-> 0, halfmove |-> 0, fullmove |-> 1],
      \* 4k3/8/8/8/8/5n2/4r1P1/4K3 w - - 0 1
      [placement |-> At({<<4, 0, 6>>, <<12, 1, 4>>, <<14, 0, 1>>, <<21, 1, 2>>, <<60, 1, 6>>}),
       side |-> 0, castle |-> {}, ep |-> 0, halfmove |-> 0, fullmove |-> 1],
      \* 1b5k/8/8/3pP3/8/8/7K/8 w - d6 0 1
      [placement |-> At({<<15, 0, 6>>, <<35, 1, 1>>, <<36, 0, 1>>, <<57, 1, 3>>, <<63, 1, 6>>}),
       side |-> 0, castle |-> {}, ep |-> 43, halfmove |-> 0, fullmove |-> 1],
      \* 7k/5Q2/6K1/8/8/8/8/8 b - - 0 1
      [placement |-> At({<<46, 0, 6>>, <<53, 0, 5>>, <<63, 1, 6>>}),
       side |-> 1, castle |-> {}, ep |-> 0, halfmove |-> 0, fullmove |-> 1],
      \* 7k/6Q1/6K1/8/8/8/8/8 b - - 0 1
      [placement |-> At({<<46, 0, 6>>, <<54, 0, 5>>, <<63, 1, 6>>}),
       side |-> 1, castle |-> {}, ep |-> 0, halfmove |-> 0, fullmove |-> 1],
      \* 1k6/8/8/8/4rp2/5P1p/4P2P/4K2Q w - - 0 1
      [placement |-> At({<<4, 0, 6>>, <<7, 0, 5>>, <<12, 0, 1>>, <<15, 0, 1>>, <<21, 0, 1>>, <<23, 1, 1>>, <<28, 1, 4>>, <<29, 1, 1>>, <<57, 1, 6>>}),
       side |-> 0, castle |-> {}, ep |-> 0, halfmove |-> 0, fullmove |-> 1],
      \* 4r2k/8/8/8/7b/8/4R1P1/4K3 w - - 0 1
      [placement |-> At({<<4, 0, 6>>, <<12, 0, 4>>, <<14, 0, 1>>, <<31, 1, 3>>, <<60, 1, 4>>, <<63, 1, 6>>}),
       side |-> 0, castle |-> {}, ep |-> 0, halfmove |-> 0, fullmove |-> 1],
      \* 4k3/8/8/3pP3/4K3/8/8/8 w - d6 0 1
      [placement |-> At({<<28, 0, 6>>, <<35, 1, 1>>, <<36, 0, 1>>, <<60, 1, 6>>}),
       side |-> 0, castle |-> {}, ep |-> 43, halfmove |-> 0, fullmove |-> 1],
      \* 7b/6P1/5K2/8/8/8/8/k7 w - - 0 1
      [placement |-> At({<<0, 1, 6>>, <<45, 0, 6>>, <<54, 0, 1>>, <<63, 1, 3>>}),
       side |-> 0, castle |-> {}, ep |-> 0, halfmove |-> 0, fullmove |-> 1],
      \* 7k/8/8/8/8/8/8/K7 w - - 254 1
      [placement |-> At({<<0, 0, 6>>, <<63, 1, 6>>}),
       side |-> 0, castle |-> {}, ep |-> 0, halfmove |-> 254, fullmove |-> 1],
      \* 4k2r/6P1/8/8/8/8/8/R3K2R w KQk - 7 30
      [placement |-> At({<<0, 0, 4>>, <<4, 0, 6>>, <<7, 0, 4>>, <<54, 0, 1>>, <<60, 1, 6>>, <<63, 1, 4>>}),
       side |-> 0, castle |-> {<<0, 1>>, <<0, 0>>, <<1, 1>>}, ep |-> 0, halfmove |-> 7, fullmove |-> 30],
      \* rnbqkbnr/pppppppp/8/8/8/8/PPPPPPPP/RNBQKBNR w KQkq - 0 1
      [placement |-> At({<<0, 0, 4>>, <<1, 0, 2>>, <<2, 0, 3>>, <<3, 0, 5>>, <<4, 0, 6>>, <<5, 0, 3>>, <<6, 0, 2>>, <<7, 0, 4>>, <<8, 0, 1>>, <<9, 0, 1>>, <<10, 0, 1>>, <<11, 0, 1>>, <<12, 0, 1>>, <<13, 0, 1>>, <<14, 0, 1>>, <<15, 0, 1>>, <<48, 1, 1>>, <<49, 1, 1>>, <<50, 1, 1>>, <<51, 1, 1>>, <<52, 1, 1>>, <<53, 1, 1>>, <<54, 1, 1>>, <<55, 1, 1>>, <<56, 1, 4>>, <<57, 1, 2>>, <<58, 1, 3>>, <<59, 1, 5>>, <<60, 1, 6>>, <<61, 1, 3>>, <<62, 1, 2>>, <<63, 1, 4>>}),
       side |-> 0, castle |-> {<<0, 1>>, <<0, 0>>, <<1, 1>>, <<1, 0>>}, ep |-> 0, halfmove |-> 0, fullmove |-> 1],
      \* 4r2k/4P3/8/8/8/8/8/4K3 w - - 0 1
      [placement |-> At({<<4, 0, 6>>, <<52, 0, 1>>, <<60, 1, 4>>, <<63, 1, 6>>}),
       side |-> 0, castle |-> {}, ep |-> 0, halfmove |-> 0, fullmove |-> 1]
    >>

Init ==
    /\ b \in {ParseFen(StartPositions[i]) : i \in DOMAIN StartPositions}
    /\ saves = <<>>
    /\ gen = NoGen
    /\ undone = NoSave
    /\ initial = b
    /\ walk = NoWalk

\* moves, isInCheck := b.GenerateLegalMoves2(onlyNoisy)
Generate(onlyNoisy) ==
    /\ gen = NoGen
    /\ \E r \in {GenerateLegalMoves2(b, onlyNoisy)} :
          /\ b' = r.b
          /\ gen' = [made |-> TRUE, onlyNoisy |-> onlyNoisy,
                     moves |-> r.moves, isInCheck |-> r.isInCheck]
    /\ undone' = NoSave
    /\ UNCHANGED <<saves, initial, walk>>

\* the hint a caller may set with Setsimple: the move is no promotion,
\* no en-passant capture and no castling
MayBeSimple(bd, m) ==
    /\ Promote(m) = 0
    /\ ~(bd.pieces[From(m)] = Pawn /\ To(m) = bd.enpassant /\ bd.enpassant # 0)
    /\ ~(bd.pieces[From(m)] = King /\ (To(m) - From(m) = 2 \/ From(m) - To(m) = 2))

\* b.MakeMove(m, &bs) for a generated move m, the save pushed on the stack
DoMakeMove(m, hint) ==
    /\ Len(saves) < MaxPly
    /\ LET r == MakeMove(b, IF hint THEN Setsimple(m) ELSE m)
       IN  /\ b' = r.b
           /\ saves' = Append(saves, [kind |-> "move", bs |-> r.bs, m |-> m, before |-> b])
    /\ gen' = NoGen
    /\ undone' = NoSave
    /\ UNCHANGED <<initial, walk>>

MakeGenerated ==
    /\ gen.made
    /\ \E i \in 1 .. Len(gen.moves) : DoMakeMove(gen.moves[i], FALSE)

MakeHinted ==
    /\ gen.made
    /\ \E i \in 1 .. Len(gen.moves) :
          /\ MayBeSimple(b, gen.moves[i])
          /\ DoMakeMove(gen.moves[i], TRUE)

\* b.Restore(&bs) with the newest save
TakeBack ==
    /\ saves # <<>>
    /\ saves[Len(saves)].kind = "move"
    /\ b' = Restore(b, saves[Len(saves)].bs)
    /\ undone' = saves[Len(saves)]
    /\ saves' = SubSeq(saves, 1, Len(saves) - 1)
    /\ gen' = NoGen
    /\ UNCHANGED <<initial, walk>>

\* unapply := b.ApplyNullMove(); callers skip a turn only when not in check
NullMove ==
    /\ gen.made
    /\ ~gen.isInCheck
    /\ Len(saves) < MaxPly
    /\ LET r == ApplyNullMove2(b)
       IN  /\ b' = r.b
           /\ saves' = Append(saves, [kind |-> "null", oldEp |-> r.oldEp, before |-> b])
    /\ gen' = NoGen
    /\ undone' = NoSave
    /\ UNCHANGED <<initial, walk>>

\* unapply()
UnapplyNull ==
    /\ saves # <<>>
    /\ saves[Len(saves)].kind = "null"
    /\ b' = Unapply(b, saves[Len(saves)].oldEp)
    /\ undone' = saves[Len(saves)]
    /\ saves' = SubSeq(saves, 1, Len(saves) - 1)
    /\ gen' = NoGen
    /\ UNCHANGED <<initial, walk>>

Next ==
    \/ Generate(FALSE)
    \/ Generate(TRUE)
    \/ MakeGenerated
    \/ MakeHinted
    \/ TakeBack
    \/ NullMove
    \/ UnapplyNull

Spec == Init /\ [][Next]_vars

(* ------------------------------- perft -------------------------------- *)
\* perft(d): the number of leaves of the legal move tree of depth d, counted
\* by walking the tree: generate, make each move in turn, recurse, restore.
\* rnbqkbnr/pppppppp/8/8/8/8/PPPPPPPP/RNBQKBNR w KQkq - 0 1
StandardPosition ==
    [placement |-> At({<<0, 0, 4>>, <<1, 0, 2>>, <<2, 0, 3>>, <<3, 0, 5>>, <<4, 0, 6>>, <<5, 0, 3>>, <<6, 0, 2>>, <<7, 0, 4>>, <<8, 0, 1>>, <<9, 0, 1>>, <<10, 0, 1>>, <<11, 0, 1>>, <<12, 0, 1>>, <<13, 0, 1>>, <<14, 0, 1>>, <<15, 0, 1>>, <<48, 1, 1>>, <<49, 1, 1>>, <<50, 1, 1>>, <<51, 1, 1>>, <<52, 1, 1>>, <<53, 1, 1>>, <<54, 1, 1>>, <<55, 1, 1>>, <<56, 1, 4>>, <<57, 1, 2>>, <<58, 1, 3>>, <<59, 1, 5>>, <<60, 1, 6>>, <<61, 1, 3>>, <<62, 1, 2>>, <<63, 1, 4>>}),
     side |-> 0, castle |-> {<<0, 1>>, <<0, 0>>, <<1, 1>>, <<1, 0>>}, ep |-> 0, halfmove |-> 0, fullmove |-> 1]

\* r3k2r/p1ppqpb1/bn2pnp1/3PN3/1p2P3/2N2Q1p/PPPBBPPP/R3K2R w KQkq - 0 1
Kiwipete ==
    [placement |-> At({<<0, 0, 4>>, <<4, 0, 6>>, <<7, 0, 4>>, <<8, 0, 1>>, <<9, 0, 1>>, <<10, 0, 1>>, <<11, 0, 3>>, <<12, 0, 3>>, <<13, 0, 1>>, <<14, 0, 1>>, <<15, 0, 1>>, <<18, 0, 2>>, <<21, 0, 5>>, <<23, 1, 1>>, <<25, 1, 1>>, <<28, 0, 1>>, <<35, 0, 1>>, <<36, 0, 2>>, <<40, 1, 3>>, <<41, 1, 2>>, <<44, 1, 1>>, <<45, 1, 2>>, <<46, 1, 1>>, <<48, 1, 1>>, <<50, 1, 1>>, <<51, 1, 1>>, <<52, 1, 5>>, <<53, 1, 1>>, <<54, 1, 3>>, <<56, 1, 4>>, <<60, 1, 6>>, <<63, 1, 4>>}),
     side |-> 0, castle |-> {<<0, 1>>, <<0, 0>>, <<1, 1>>, <<1, 0>>}, ep |-> 0, halfmove |-> 0, fullmove |-> 1]

\* the runs of the walk: <<position, depth>>
PerftRuns == {<<StandardPosition, 2>>, <<StandardPosition, 3>>, <<Kiwipete, 2>>}

PerftInit ==
    \E run \in PerftRuns :
        /\ b = ParseFen(run[1])
        /\ saves = <<>>
        /\ gen = NoGen
        /\ undone = NoSave
        /\ initial = b
        /\ walk = [depth |-> run[2], leaves |-> 0]

\* an inner node is entered: its moves are generated
PerftExpand ==
    /\ gen = NoGen
    /\ Len(saves) < walk.depth
    /\ \E r \in {GenerateLegalMoves2(b, FALSE)} :
          /\ b' = r.b
          /\ gen' = [made |-> TRUE, onlyNoisy |-> FALSE,
                     moves |-> r.moves, isInCheck |-> r.isInCheck]
    /\ UNCHANGED <<saves, undone, initial, walk>>

\* the next move of the node is made; the moves still to try stay with the save
PerftDescend ==
    /\ gen.made
    /\ gen.moves # <<>>
    /\ \E r \in {MakeMove(b, Head(gen.moves))} :
          /\ b' = r.b
          /\ saves' = Append(saves, [kind |-> "move", bs |-> r.bs, m |-> Head(gen.moves),
                                     before |-> b, rest |-> [gen EXCEPT !.moves = Tail(@)]])
    /\ gen' = NoGen
    /\ undone' = NoSave
    /\ UNCHANGED <<initial, walk>>

\* b.Restore(&bs) back to the parent node, which goes on with its other moves
PerftBack ==
    /\ b' = Restore(b, saves[Len(saves)].bs)
    /\ gen' = saves[Len(saves)].rest
    /\ undone' = saves[Len(saves)]
    /\ saves' = SubSeq(saves, 1, Len(saves) - 1)
    /\ UNCHANGED initial

\* a node at the full depth is a leaf: it is counted and left
PerftLeaf ==
    /\ gen = NoGen
    /\ saves # <<>>
    /\ Len(saves) = walk.depth
    /\ walk' = [walk EXCEPT !.leaves = @ + 1]
    /\ PerftBack

\* every move of an inner node has been tried
PerftReturn ==
    /\ gen.made
    /\ gen.moves = <<>>
    /\ saves # <<>>
    /\ UNCHANGED walk
    /\ PerftBack

PerftDone == gen.made /\ gen.moves = <<>> /\ saves = <<>>

PerftNext ==
    \/ PerftExpand
    \/ PerftDescend
    \/ PerftLeaf
    \/ PerftReturn

PerftSpec == PerftInit /\ [][PerftNext]_vars

(* ------------------ the rules of chess, stated directly --------------- *)
\* Independent of the generator: a position is a function from squares to
\* <<colour, kind>> (kind Nothing on an empty square); attacks and legality
\* are defined from the geometry of the board.
Abs(x) == IF x < 0 THEN -x ELSE x
Sign(x) == IF x < 0 THEN -1 ELSE IF x > 0 THEN 1 ELSE 0
fileDist(s, t) == Abs(fileOf(s) - fileOf(t))
rankDist(s, t) == Abs(rankOf(s) - rankOf(t))
Orthogonal(s, t) == s # t /\ (fileOf(s) = fileOf(t) \/ rankOf(s) = rankOf(t))
Diagonal(s, t) == s # t /\ fileDist(s, t) = rankDist(s, t)
\* the squares strictly between two squares on a common line
Between(s, t) ==
    IF Orthogonal(s, t) \/ Diagonal(s, t)
    THEN LET sf == Sign(fileOf(t) - fileOf(s))
             sr == Sign(rankOf(t) - rankOf(s))
             n  == IF fileDist(s, t) > rankDist(s, t) THEN fileDist(s, t) ELSE rankDist(s, t)
         IN  {sq(fileOf(s) + k * sf, rankOf(s) + k * sr) : k \in 1 .. (n - 1)}
    ELSE {}

PosOf(bd) ==
    [s \in Squares |-> <<IF s \in bd.Bbs[Black][All] THEN Black ELSE White, bd.pieces[s]>>]
Empty(pos, s) == pos[s][2] = Nothing
Holds(pos, s, col, kind) == pos[s] = <<col, kind>>
Forward(col) == IF col = White THEN 1 ELSE -1

\* the piece on s attacks the square t
RuleAttacks(pos, s, t) ==
    LET col == pos[s][1]
        kind == pos[s][2]
        clear == \A x \in Between(s, t) : Empty(pos, x)
    IN  CASE kind = Pawn -> fileDist(s, t) = 1 /\ rankOf(t) - rankOf(s) = Forward(col)
          [] kind = Knight -> {fileDist(s, t), rankDist(s, t)} = {1, 2}
          [] kind = Bishop -> Diagonal(s, t) /\ clear
          [] kind = Rook -> Orthogonal(s, t) /\ clear
          [] kind = Queen -> (Diagonal(s, t) \/ Orthogonal(s, t)) /\ clear
          [] kind = King -> s # t /\ fileDist(s, t) <= 1 /\ rankDist(s, t) <= 1
          [] OTHER -> FALSE

RuleAttackers(pos, t, byCol) ==
    {s \in Squares : ~Empty(pos, s) /\ pos[s][1] = byCol /\ RuleAttacks(pos, s, t)}
RuleKingSquares(pos, col) == {s \in Squares : Holds(pos, s, col, King)}
RuleInCheck(pos, col) ==
    \E k \in RuleKingSquares(pos, col) : RuleAttackers(pos, k, oppColor(col)) # {}

\* the position after the move <<from, to, promotion>> of the side col
RuleIsEp(pos, ep, mv) == pos[mv[1]][2] = Pawn /\ ep # 0 /\ mv[2] = ep
RuleIsCastle(pos, mv) == pos[mv[1]][2] = King /\ fileDist(mv[1], mv[2]) = 2
RuleApply(pos, col, ep, mv) ==
    LET from == mv[1]
        to == mv[2]
        kind == IF mv[3] # 0 THEN mv[3] ELSE pos[from][2]
        epVictim == sq(fileOf(to), rankOf(from))
        rookFrom == IF fileOf(to) = 6 THEN sq(7, rankOf(from)) ELSE sq(0, rankOf(from))
        rookTo == IF fileOf(to) = 6 THEN sq(5, rankOf(from)) ELSE sq(3, rankOf(from))
    IN  [s \in Squares |->
            IF s = from THEN <<White, Nothing>>
            ELSE IF s = to THEN <<col, kind>>
            ELSE IF RuleIsEp(pos, ep, mv) /\ s = epVictim THEN <<White, Nothing>>
            ELSE IF RuleIsCastle(pos, mv) /\ s = rookFrom THEN <<White, Nothing>>
            ELSE IF RuleIsCastle(pos, mv) /\ s = rookTo THEN <<col, Rook>>
            ELSE pos[s]]

\* where the piece on s may go, the king's safety not yet considered
RuleTargets(pos, col, ep, s) ==
    LET kind == pos[s][2]
        own(t) == ~Empty(pos, t) /\ pos[t][1] = col
        enemy(t) == ~Empty(pos, t) /\ pos[t][1] # col
        startRank == IF col = White THEN 1 ELSE 6
        one == s + 8 * Forward(col)
        two == s + 16 * Forward(col)
    IN  IF kind = Pawn
        THEN {t \in Squares :
                \/ t = one /\ Empty(pos, t)
                \/ t = two /\ rankOf(s) = startRank /\ Empty(pos, one) /\ Empty(pos, t)
                \/ /\ fileDist(s, t) = 1 /\ rankOf(t) - rankOf(s) = Forward(col)
                   /\ (enemy(t) \/ (ep # 0 /\ t = ep))}
        ELSE {t \in Squares : ~own(t) /\ RuleAttacks(pos, s, t)}

RulePromotions(pos, col, s, t) ==
    IF pos[s][2] = Pawn /\ rankOf(t) = (IF col = White THEN 7 ELSE 0)
    THEN {Knight, Bishop, Rook, Queen} ELSE {0}

\* castling of col to the given side is permitted
RuleMayCastle(pos, col, rights, side) ==
    LET r == IF col = White THEN 0 ELSE 7
        kingFrom == sq(4, r)
        rookFrom == IF side = Kingside THEN sq(7, r) ELSE sq(0, r)
        passOver == IF side = Kingside THEN sq(5, r) ELSE sq(3, r)
        kingTo == IF side = Kingside THEN sq(6, r) ELSE sq(2, r)
    IN  /\ <<col, side>> \in rights
        /\ Holds(pos, kingFrom, col, King) /\ Holds(pos, rookFrom, col, Rook)
        /\ \A x \in Between(kingFrom, rookFrom) : Empty(pos, x)
        /\ \A x \in {kingFrom, passOver, kingTo} : RuleAttackers(pos, x, oppColor(col)) = {}

RuleCastleMove(col, side) ==
    LET r == IF col = White THEN 0 ELSE 7
    IN  <<sq(4, r), IF side = Kingside THEN sq(6, r) ELSE sq(2, r), 0>>

\* every legal move <<from, to, promotion>> of the side to move
RuleLegalMoves(pos, col, ep, rights) ==
    {mv \in UNION {UNION {{<<s, t, pr>> : pr \in RulePromotions(pos, col, s, t)} :
                            t \in RuleTargets(pos, col, ep, s)} :
                     s \in {x \in Squares : ~Empty(pos, x) /\ pos[x][1] = col}} :
        ~RuleInCheck(RuleApply(pos, col, ep, mv), col)}
    \cup {RuleCastleMove(col, side) :
            side \in {sd \in {Kingside, Queenside} : RuleMayCastle(pos, col, rights, sd)}}

RightsOf(bd) == {cs \in (0 .. 1) \X (0 .. 1) : canCastle(bd, cs[1], cs[2])}
LegalMovesOf(bd) == RuleLegalMoves(PosOf(bd), bd.Colortomove, bd.enpassant, RightsOf(bd))
Triple(m) == <<From(m), To(m), Promote(m)>>
TriplesOf(moves) == {Triple(moves[i]) : i \in 1 .. Len(moves)}

(* ------------------------------ properties ---------------------------- *)
Top == saves[Len(saves)]
IsCastling(bd, m) == bd.pieces[From(m)] = King /\ fileDist(From(m), To(m)) = 2
IsEnPassant(bd, m) == bd.pieces[From(m)] = Pawn /\ bd.enpassant # 0 /\ To(m) = bd.enpassant
IsOrdinaryCapture(bd, m) == bd.pieces[To(m)] # Nothing /\ Promote(m) = 0
IsQuiet(bd, m) ==
    bd.pieces[To(m)] = Nothing /\ Promote(m) = 0 /\ ~IsCastling(bd, m) /\ ~IsEnPassant(bd, m)
Listed(P(_)) == \E i \in 1 .. Len(gen.moves) : P(gen.moves[i])

RoundTrip(bd, m) == LET r == MakeMove(bd, m) IN Restore(r.b, r.bs) = bd

\* C1: MakeMove(m, s) followed by Restore(s) leaves every field of the
\* position as it was, for every generated move m (with and without the
\* simple-move hint where the hint is allowed), and the position after a
\* take-back is the position the move was made in.
C1_MakeRestoreIsIdentity ==
    /\ gen.made =>
          \A i \in 1 .. Len(gen.moves) :
              /\ RoundTrip(b, gen.moves[i])
              /\ MayBeSimple(b, gen.moves[i]) => RoundTrip(b, Setsimple(gen.moves[i]))
    /\ undone.kind = "move" => b = undone.before

\* a generated list with a quiet move, an ordinary capture, a castling, an
\* en-passant capture and promotions with and without capture
C1_Witness ==
    /\ gen.made
    /\ Listed(LAMBDA m : IsQuiet(b, m))
    /\ Listed(LAMBDA m : IsOrdinaryCapture(b, m))
    /\ Listed(LAMBDA m : IsCastling(b, m))
    /\ Listed(LAMBDA m : IsEnPassant(b, m))
    /\ Listed(LAMBDA m : Promote(m) # 0 /\ b.pieces[To(m)] # Nothing)
    /\ Listed(LAMBDA m : Promote(m) # 0 /\ b.pieces[To(m)] = Nothing)
    /\ \A i \in 1 .. Len(gen.moves) : RoundTrip(b, gen.moves[i])

\* C2: stack discipline.  Undoing the newest entry of the stack gives the
\* position that existed just before that entry was made, at every depth,
\* and with the whole stack undone the position and hash are the initial ones.
C2_StackDiscipline ==
    /\ undone # NoSave => b = undone.before
    /\ saves = <<>> => b = initial /\ b.hash = initial.hash

\* a move undone while an older move is still on the stack
C2_Witness ==
    /\ undone.kind = "move"
    /\ Len(saves) = MaxPly - 1
    /\ Len(saves) >= 1
    /\ Top.kind = "move"
    /\ b = undone.before
    /\ b # initial

\* C3: the incrementally maintained hash equals recomputeBoardHash in every
\* position reached by MakeMove, Restore, ApplyNullMove and Unapply.
C3_HashIsRecomputed == b.hash = recomputeBoardHash(b)

\* after a null move that cleared an en-passant square, on top of a move
C3_Witness ==
    /\ Len(saves) >= 1
    /\ Top.kind = "null"
    /\ Top.oldEp # 0
    /\ gen = NoGen
    /\ b.hash = recomputeBoardHash(b)

\* what the rules say about the position on the board
Mover == b.Colortomove
InCheckByRule == RuleInCheck(PosOf(b), Mover)
KingSquare == CHOOSE k \in Squares : Holds(PosOf(b), k, Mover, King)
Checkers == RuleAttackers(PosOf(b), KingSquare, oppColor(Mover))
\* some piece of the mover could move by its geometry alone, but the move
\* would leave the mover's own king attacked
SomeMoveExposesKing ==
    \E s \in b.Bbs[Mover][All] :
        \E t \in RuleTargets(PosOf(b), Mover, b.enpassant, s) :
            RuleInCheck(RuleApply(PosOf(b), Mover, b.enpassant, <<s, t, 0>>), Mover)

\* C4: soundness.  After any generated move is made, the king of the side
\* that moved is not attacked; and in every position reached the king of the
\* side not to move is not in check.
C4_GeneratedMovesAreLegal ==
    /\ gen.made =>
          \A i \in 1 .. Len(gen.moves) :
              ~RuleInCheck(PosOf(MakeMove(b, gen.moves[i]).b), Mover)
    /\ ~RuleInCheck(PosOf(b), oppColor(Mover))

\* moves were generated, after a move, where the geometry alone would have
\* allowed a move that exposes the king
C4_Witness ==
    /\ gen.made
    /\ gen.moves # <<>>
    /\ saves # <<>>
    /\ SomeMoveExposesKing
    /\ \A i \in 1 .. Len(gen.moves) :
          ~RuleInCheck(PosOf(MakeMove(b, gen.moves[i]).b), Mover)

\* C5: completeness.  Every move that is legal under the rules of chess for
\* the side to move is in the list GenerateLegalMoves2(false) returns.
C5_EveryLegalMoveIsGenerated ==
    (gen.made /\ ~gen.onlyNoisy) => LegalMovesOf(b) \subseteq TriplesOf(gen.moves)

\* C6: no two entries of the generated list have the same (from, to,
\* promotion) triple, for both values of the only-noisy flag.
C6_NoDuplicateMoves ==
    gen.made =>
        \A i, j \in 1 .. Len(gen.moves) :
            Triple(gen.moves[i]) = Triple(gen.moves[j]) => i = j

\* a list with moves of a pinned piece, of a queen along a diagonal and
\* along a file or rank, and of the king
C6_Witness ==
    /\ gen.made
    /\ \E s \in b.Bbs[Mover][All] :
          /\ b.pieces[s] # King
          /\ Listed(LAMBDA m : From(m) = s)
          /\ RuleInCheck([PosOf(b) EXCEPT ![s] = <<White, Nothing>>], Mover)
    /\ Listed(LAMBDA m : b.pieces[From(m)] = Queen /\ Diagonal(From(m), To(m)))
    /\ Listed(LAMBDA m : b.pieces[From(m)] = Queen /\ Orthogonal(From(m), To(m)))
    /\ Listed(LAMBDA m : b.pieces[From(m)] = King)
    /\ Cardinality(TriplesOf(gen.moves)) = Len(gen.moves)

\* the redundant board representation agrees with itself
Consistent(bd) ==
    /\ \A c \in {White, Black} :
          /\ bd.Bbs[c][All] = UNION {bd.Bbs[c][k] : k \in Pawn .. King}
          /\ \A k1, k2 \in Pawn .. King : k1 # k2 => bd.Bbs[c][k1] \cap bd.Bbs[c][k2] = {}
          /\ Cardinality(bd.Bbs[c][King]) = 1
    /\ bd.Bbs[White][All] \cap bd.Bbs[Black][All] = {}
    /\ \A s \in Squares :
          IF s \notin bd.Bbs[White][All] \cup bd.Bbs[Black][All]
          THEN bd.pieces[s] = Nothing
          ELSE /\ bd.pieces[s] \in Pawn .. King
               /\ s \in bd.Bbs[White][bd.pieces[s]] \cup bd.Bbs[Black][bd.pieces[s]]

\* C7: after every MakeMove of a generated move and after every Restore, for
\* each colour All is the union of the six pairwise disjoint piece bitboards,
\* the colours' All bitboards are disjoint, pieces[] agrees with the
\* bitboards on every square, and each colour has exactly one king.
C7_BoardIsConsistent ==
    ((saves # <<>> /\ Top.kind = "move" /\ gen = NoGen) \/ undone.kind = "move")
        => Consistent(b)

\* just after a promotion that captured has been taken back
C7_Witness ==
    /\ undone.kind = "move"
    /\ Promote(undone.m) # 0
    /\ undone.bs.CapturePiece # Nothing
    /\ Consistent(b)

\* C8: GenerateLegalMoves2 returns isInCheck = true iff the king of the side
\* to move is attacked by at least one opposing piece, for both values of the
\* only-noisy flag; checkmate is (empty list, true), stalemate (empty list, false).
C8_IsInCheckIffKingAttacked ==
    gen.made =>
        /\ gen.isInCheck <=> Checkers # {}
        /\ (~gen.onlyNoisy /\ LegalMovesOf(b) = {}) => gen.moves = <<>>

\* checkmate: the king is attacked and the list is empty
C8_Witness ==
    /\ gen.made
    /\ gen.isInCheck
    /\ Checkers # {}
    /\ gen.moves = <<>>

\* C9: when two or more opposing pieces attack the king of the side to move,
\* every generated move starts on the king's square, none is a castling move,
\* and isInCheck is true.
C9_DoubleCheckOnlyKingMoves ==
    (gen.made /\ Cardinality(Checkers) >= 2) =>
        /\ gen.isInCheck
        /\ \A i \in 1 .. Len(gen.moves) :
              /\ From(gen.moves[i]) = KingSquare
              /\ fileDist(From(gen.moves[i]), To(gen.moves[i])) <= 1

\* a double check the king can step out of, with another piece of the mover
\* that could capture a checker
C9_Witness ==
    /\ gen.made
    /\ Cardinality(Checkers) >= 2
    /\ gen.moves # <<>>
    /\ \E s \in b.Bbs[Mover][All] \ {KingSquare} :
          RuleTargets(PosOf(b), Mover, b.enpassant, s) \cap Checkers # {}

\* the king's move of two squares toward the rook of the given side is listed
CastlingListed(side) ==
    Listed(LAMBDA m : /\ b.pieces[From(m)] = King
                      /\ To(m) = From(m) + (IF side = Kingside THEN 2 ELSE -2))

\* the conditions the generator is to test before it emits a castling move
CastlingAllowed(side) ==
    LET pos == PosOf(b)
        rookFrom == IF side = Kingside THEN KingSquare + 3 ELSE KingSquare - 4
        passOver == IF side = Kingside THEN KingSquare + 1 ELSE KingSquare - 1
        kingTo == IF side = Kingside THEN KingSquare + 2 ELSE KingSquare - 2
    IN  /\ Checkers = {}
        /\ canCastle(b, Mover, side)
        /\ \A x \in Between(KingSquare, rookFrom) : Empty(pos, x)
        /\ RuleAttackers(pos, passOver, oppColor(Mover)) = {}
        /\ RuleAttackers(pos, kingTo, oppColor(Mover)) = {}

\* C10: generate(false) emits the castling move of a side iff the side to
\* move is not in check, holds that castle right, every square strictly
\* between king and rook is empty, and neither the square the king passes
\* over nor its destination is attacked by the opponent.
C10_CastlingIffAllowed ==
    (gen.made /\ ~gen.onlyNoisy) =>
        \A side \in {Kingside, Queenside} :
            CastlingListed(side) <=> CastlingAllowed(side)

\* one castling is listed, the other is held back only by an attacked square
C10_Witness ==
    /\ gen.made
    /\ ~gen.onlyNoisy
    /\ \E listed, refused \in {Kingside, Queenside} :
          /\ CastlingListed(listed)
          /\ ~CastlingListed(refused)
          /\ canCastle(b, Mover, refused)
          /\ Checkers = {}
          /\ \A x \in Between(KingSquare, IF refused = Kingside THEN KingSquare + 3
                                                                ELSE KingSquare - 4) :
                Empty(PosOf(b), x)

\* the pawns of the mover that stand diagonally behind the en-passant square
EpCapturers ==
    IF b.enpassant = 0 THEN {}
    ELSE {s \in b.Bbs[Mover][Pawn] :
            /\ fileDist(s, b.enpassant) = 1
            /\ rankOf(b.enpassant) - rankOf(s) = Forward(Mover)}

\* the piece on s is the only piece between the mover's king and an opposing
\* slider that moves along their common line
RulePinned(s) ==
    \E a \in b.Bbs[oppColor(Mover)][All] :
        /\ s \in Between(a, KingSquare)
        /\ \A x \in Between(a, KingSquare) \ {s} : Empty(PosOf(b), x)
        /\ \/ Orthogonal(a, KingSquare) /\ b.pieces[a] \in {Rook, Queen}
           \/ Diagonal(a, KingSquare) /\ b.pieces[a] \in {Bishop, Queen}

\* after the en-passant capture from s (both pawns moved as the rules say)
\* the mover's king is not attacked
EpLeavesKingSafe(s) ==
    ~RuleInCheck(RuleApply(PosOf(b), Mover, b.enpassant, <<s, b.enpassant, 0>>), Mover)

EpListed(s) == Listed(LAMBDA m : From(m) = s /\ To(m) = b.enpassant)

\* C11: en-passant legality.  The en-passant capture of a pawn that is not
\* pinned is in the generated list iff, with the capturing pawn moved to the
\* en-passant square and the captured pawn removed, the mover's king is not
\* attacked; so a capture that opens the rank between king and rook or queen
\* is not listed.
C11_EnPassantIffKingSafe ==
    gen.made =>
        \A s \in EpCapturers :
            ~RulePinned(s) => (EpListed(s) <=> EpLeavesKingSafe(s))

\* both pawns would leave the rank on which the mover's king and an opposing
\* rook or queen stand, and the capture is not in the list
C11_Witness ==
    /\ gen.made
    /\ \E s \in EpCapturers :
          /\ ~RulePinned(s)
          /\ rankOf(KingSquare) = rankOf(s)
          /\ \E a \in b.Bbs[oppColor(Mover)][Rook] \cup b.Bbs[oppColor(Mover)][Queen] :
                rankOf(a) = rankOf(s) /\ s \in Between(a, KingSquare)
          /\ ~EpLeavesKingSafe(s)
          /\ ~EpListed(s)

PromotionRank(col) == IF col = White THEN 7 ELSE 0
IsPromotingPawnMove(bd, m) ==
    bd.pieces[From(m)] = Pawn /\ rankOf(To(m)) = PromotionRank(bd.Colortomove)
\* how many entries of the list go from the square s to the square t
EntriesFromTo(s, t) ==
    Cardinality({i \in 1 .. Len(gen.moves) : From(gen.moves[i]) = s /\ To(gen.moves[i]) = t})

\* C12: promotion generation.  A generated pawn move to the promotion rank
\* carries a promotion kind Knight..Queen, its from-to pair is in the list
\* exactly four times, once with each of the four kinds; every other
\* generated move has promotion kind 0.
C12_PromotionsInFours ==
    gen.made =>
        \A i \in 1 .. Len(gen.moves) :
            IF IsPromotingPawnMove(b, gen.moves[i])
            THEN /\ Promote(gen.moves[i]) \in {Knight, Bishop, Rook, Queen}
                 /\ EntriesFromTo(From(gen.moves[i]), To(gen.moves[i])) = 4
                 /\ \A k \in {Knight, Bishop, Rook, Queen} :
                       Listed(LAMBDA m : /\ From(m) = From(gen.moves[i])
                                         /\ To(m) = To(gen.moves[i])
                                         /\ Promote(m) = k)
            ELSE Promote(gen.moves[i]) = 0

\* a list with a promoting push, a promoting capture, a pawn move that does
\* not promote and a move of another piece
C12_Witness ==
    /\ gen.made
    /\ Listed(LAMBDA m : IsPromotingPawnMove(b, m) /\ fileOf(From(m)) = fileOf(To(m))
                         /\ Promote(m) = Knight)
    /\ Listed(LAMBDA m : IsPromotingPawnMove(b, m) /\ fileOf(From(m)) # fileOf(To(m))
                         /\ Promote(m) = Queen)
    /\ Listed(LAMBDA m : b.pieces[From(m)] = Pawn /\ Promote(m) = 0)
    /\ Listed(LAMBDA m : b.pieces[From(m)] # Pawn /\ Promote(m) = 0)

\* the move captures an opposing piece (en passant included) or pushes a pawn
\* onto the promotion rank
IsNoisy(bd, m) ==
    \/ bd.pieces[To(m)] # Nothing
    \/ IsEnPassant(bd, m)
    \/ IsPromotingPawnMove(bd, m)
\* what GenerateLegalMoves2(false) returns for the position on the board
FullList == GenerateLegalMoves2(b, FALSE).moves
NoisyOfFullList ==
    {Triple(FullList[i]) : i \in {j \in 1 .. Len(FullList) : IsNoisy(b, FullList[j])}}

\* C13: only-noisy mode.  Out of check GenerateLegalMoves2(true) returns
\* exactly the moves of GenerateLegalMoves2(false) that capture (en passant
\* included) or push a pawn onto the promotion rank; in check both calls
\* return the same set of moves.
C13_OnlyNoisyIsTheNoisyPart ==
    (gen.made /\ gen.onlyNoisy) =>
        IF Checkers = {}
        THEN TriplesOf(gen.moves) = NoisyOfFullList
        ELSE TriplesOf(gen.moves) = TriplesOf(FullList)

\* out of check, the only-noisy list has a capture, an en-passant capture and
\* a promoting push, and the full list has quiet moves and a castling besides
C13_Witness ==
    /\ gen.made
    /\ gen.onlyNoisy
    /\ Checkers = {}
    /\ Listed(LAMBDA m : IsOrdinaryCapture(b, m))
    /\ Listed(LAMBDA m : IsEnPassant(b, m))
    /\ Listed(LAMBDA m : IsPromotingPawnMove(b, m) /\ b.pieces[To(m)] = Nothing)
    /\ \E i \in 1 .. Len(FullList) : IsQuiet(b, FullList[i])
    /\ \E i \in 1 .. Len(FullList) : IsCastling(b, FullList[i])
    /\ TriplesOf(gen.moves) # TriplesOf(FullList)

\* the move is a capture (an en-passant capture is a pawn move) or a pawn move
ResetsClock(bd, m) == bd.pieces[From(m)] = Pawn \/ bd.pieces[To(m)] # Nothing
ClockAfter(bd, m) == MakeMove(bd, m).b.Halfmoveclock
\* the clock is ok after the generated move number i, on the special path
\* and, where the hint is allowed, on the simple path
ClockIs(i, clock) ==
    /\ ClockAfter(b, gen.moves[i]) = clock
    /\ MayBeSimple(b, gen.moves[i]) => ClockAfter(b, Setsimple(gen.moves[i])) = clock

C15_ClockSaturatesAt255 ==
    gen.made =>
        \A i \in 1 .. Len(gen.moves) :
            ~ResetsClock(b, gen.moves[i]) =>
                /\ ClockAfter(b, gen.moves[i]) >= b.Halfmoveclock
                /\ b.Halfmoveclock = 255 => ClockAfter(b, gen.moves[i]) = 255

\* the home square of the rook of the colour col on the given side
RookHome(col, side) == sq(IF side = Kingside THEN 7 ELSE 0, IF col = White THEN 0 ELSE 7)
KingHome(col) == sq(4, IF col = White THEN 0 ELSE 7)
\* the move m made in the position bd is one that clears the right (col, side)
ClearsRight(bd, m, col, side) ==
    IF col = bd.Colortomove
    THEN \/ bd.pieces[From(m)] = King
         \/ bd.pieces[From(m)] = Rook /\ From(m) = RookHome(col, side)
    ELSE bd.pieces[To(m)] = Rook /\ To(m) = RookHome(col, side)
\* the rights after the move are the rights before it without those it clears
RightsFollow(bd, m, after) ==
    \A col \in {White, Black}, side \in {Kingside, Queenside} :
        canCastle(after, col, side) <=>
            (canCastle(bd, col, side) /\ ~ClearsRight(bd, m, col, side))

\* C16: castle rights under MakeMove.  No move sets a right; a king move
\* clears both rights of the mover, a rook move from a home square the
\* mover's right of that side, the capture of a rook on its home square the
\* opponent's right of that side (also when the capture promotes); every
\* other right stays as it was.  On both paths.
C16_CastleRightsOnlyCleared ==
    gen.made =>
        \A i \in 1 .. Len(gen.moves) :
            /\ RightsFollow(b, gen.moves[i], MakeMove(b, gen.moves[i]).b)
            /\ MayBeSimple(b, gen.moves[i]) =>
                  RightsFollow(b, gen.moves[i], MakeMove(b, Setsimple(gen.moves[i])).b)

\* both rights of the mover and a right of the opponent are held, and the
\* list has a castling, a king step, a move of each rook from its home
\* square, captures of the opponent's home rook with and without promotion,
\* and a move that touches no right
C16_Witness ==
    /\ gen.made
    /\ canCastle(b, Mover, Kingside) /\ canCastle(b, Mover, Queenside)
    /\ \E side \in {Kingside, Queenside} :
          /\ canCastle(b, oppColor(Mover), side)
          /\ Listed(LAMBDA m : To(m) = RookHome(oppColor(Mover), side) /\ Promote(m) # 0)
          /\ Listed(LAMBDA m : To(m) = RookHome(oppColor(Mover), side) /\ Promote(m) = 0)
    /\ Listed(LAMBDA m : IsCastling(b, m))
    /\ Listed(LAMBDA m : b.pieces[From(m)] = King /\ ~IsCastling(b, m))
    /\ Listed(LAMBDA m : From(m) = RookHome(Mover, Kingside))
    /\ Listed(LAMBDA m : From(m) = RookHome(Mover, Queenside))
    /\ Listed(LAMBDA m : \A col \in {White, Black}, side \in {Kingside, Queenside} :
                              ~ClearsRight(b, m, col, side))
    /\ \A i \in 1 .. Len(gen.moves) :
          RightsFollow(b, gen.moves[i], MakeMove(b, gen.moves[i]).b)

\* the king and the rook of a held right stand on their home squares
RightHasKingAndRook(bd, col, side) ==
    canCastle(bd, col, side) =>
        /\ Holds(PosOf(bd), KingHome(col), col, King)
        /\ Holds(PosOf(bd), RookHome(col, side), col, Rook)

\* C17: in every position reached from the start positions (the standard
\* initial position among them) by generated moves and restores, a held
\* castle right implies that the colour's king is on e1/e8 and a rook of the
\* colour on the home square of that side; every listed castling move starts
\* on e1/e8 and the rook MakeMove relocates is there.
C17_HeldRightImpliesHomeSquares ==
    /\ \A col \in {White, Black}, side \in {Kingside, Queenside} :
          RightHasKingAndRook(b, col, side)
    /\ gen.made =>
          \A side \in {Kingside, Queenside} :
              CastlingListed(side) =>
                  /\ KingSquare = KingHome(Mover)
                  /\ Holds(PosOf(b), RookHome(Mover, side), Mover, Rook)

\* after a move that cleared one right of a colour and left it the other,
\* with the opponent's castling in the list generated next
C17_Witness ==
    /\ saves # <<>>
    /\ Top.kind = "move"
    /\ \E side \in {Kingside, Queenside} :
          /\ canCastle(Top.before, oppColor(Mover), side)
          /\ ~canCastle(b, oppColor(Mover), side)
    /\ gen.made
    /\ \E side \in {Kingside, Queenside} :
          /\ CastlingListed(side)
          /\ KingSquare = KingHome(Mover)
          /\ Holds(PosOf(b), RookHome(Mover, side), Mover, Rook)

\* the pawn on From(m) advances two ranks
IsDoublePush(bd, m) ==
    /\ bd.pieces[From(m)] = Pawn
    /\ fileOf(From(m)) = fileOf(To(m))
    /\ rankDist(From(m), To(m)) = 2
\* the en-passant square MakeMove is to leave: midway for a double push, else 0
EpExpected(bd, m) == IF IsDoublePush(bd, m) THEN (From(m) + To(m)) \div 2 ELSE 0
\* a non-zero en-passant square is on the sixth rank of the side to move, is
\* empty, and the pawn that just advanced two ranks stands one rank beyond it
EpSquareIsSound(bd) ==
    bd.enpassant # 0 =>
        /\ bd.enpassant \in (IF bd.Colortomove = White THEN 40 .. 47 ELSE 16 .. 23)
        /\ Empty(PosOf(bd), bd.enpassant)
        /\ Holds(PosOf(bd),
                 IF bd.Colortomove = White THEN bd.enpassant - 8 ELSE bd.enpassant + 8,
                 oppColor(bd.Colortomove), Pawn)

\* C18: en-passant state.  After MakeMove (either path) the en-passant square
\* is the square midway between from and to iff the moved piece is a pawn
\* that advanced two ranks, and 0 after every other move; in every reachable
\* position a non-zero en-passant square lies on 40..47 with White to move or
\* 16..23 with Black to move, is empty, and the pawn that just advanced stands
\* one rank beyond it.
C18_EnPassantSquare ==
    /\ EpSquareIsSound(b)
    /\ gen.made =>
          \A i \in 1 .. Len(gen.moves) :
              /\ MakeMove(b, gen.moves[i]).b.enpassant = EpExpected(b, gen.moves[i])
              /\ MayBeSimple(b, gen.moves[i]) =>
                    MakeMove(b, Setsimple(gen.moves[i])).b.enpassant = EpExpected(b, gen.moves[i])

\* a double push has just been made: its midway square is the en-passant
\* square, and the list generated next has the en-passant capture, after
\* which the square is 0 again
C18_Witness ==
    /\ saves # <<>>
    /\ Top.kind = "move"
    /\ IsDoublePush(Top.before, Top.m)
    /\ b.enpassant = (From(Top.m) + To(Top.m)) \div 2
    /\ b.enpassant # 0
    /\ EpSquareIsSound(b)
    /\ gen.made
    /\ \E i \in 1 .. Len(gen.moves) :
          /\ IsEnPassant(b, gen.moves[i])
          /\ MakeMove(b, gen.moves[i]).b.enpassant = 0

\* C19: null move.  ApplyNullMove sets the en-passant square to 0 and flips
\* the side to move and leaves the bitboards, pieces[], the castle rights,
\* the halfmove clock and the fullmove number as they were; the returned
\* Unapply, called once, gives side to move, en-passant square and hash the
\* values they had before the null move.
C19_NullMoveFrame ==
    /\ (saves # <<>> /\ Top.kind = "null") =>
          /\ b.enpassant = 0
          /\ b.Colortomove = oppColor(Top.before.Colortomove)
          /\ b.Bbs = Top.before.Bbs
          /\ b.pieces = Top.before.pieces
          /\ b.castlerights = Top.before.castlerights
          /\ b.Halfmoveclock = Top.before.Halfmoveclock
          /\ b.Fullmoveno = Top.before.Fullmoveno
    /\ undone.kind = "null" =>
          /\ b.Colortomove = undone.before.Colortomove
          /\ b.enpassant = undone.before.enpassant
          /\ b.hash = undone.before.hash

\* a null move that cleared an en-passant square has just been unapplied
C19_Witness ==
    /\ undone.kind = "null"
    /\ undone.oldEp # 0
    /\ b.enpassant = undone.oldEp
    /\ b.Colortomove = undone.before.Colortomove
    /\ b.hash = undone.before.hash

\* C20: every move the generator returns has bit 15 (the "simple" hint) set
\* if and only if it is no promotion, no en-passant capture and no castling
\* move.
C20_SimpleBitIffQuiet ==
    gen.made =>
        \A i \in 1 .. Len(gen.moves) :
            IsSimple(gen.moves[i]) <=> MayBeSimple(b, gen.moves[i])

\* the 8 single pawn pushes, the 8 double pawn pushes and b1a3, b1c3, g1f3, g1h3
InitialMoves ==
    {<<8 + f, 16 + f, 0>> : f \in 0 .. 7} \cup {<<8 + f, 24 + f, 0>> : f \in 0 .. 7}
        \cup {<<1, 16, 0>>, <<1, 18, 0>>, <<6, 21, 0>>, <<6, 23, 0>>}

\* C21: from the standard initial position the generator returns exactly 20
\* moves (the 8 single and the 8 double pawn pushes and the knight moves b1a3,
\* b1c3, g1f3, g1h3) and reports no check, and the legal move tree has 400
\* leaves at depth 2 and 8,902 leaves at depth 3.
C21_InitialPositionPerft ==
    initial = ParseFen(StandardPosition) =>
        /\ (gen.made /\ saves = <<>> /\ walk.leaves = 0) =>
              /\ Len(gen.moves) = 20
              /\ TriplesOf(gen.moves) = InitialMoves
              /\ ~gen.isInCheck
        /\ PerftDone =>
              /\ walk.depth = 2 => walk.leaves = 400
              /\ walk.depth = 3 => walk.leaves = 8902

\* the walk of depth 3 from the initial position has ended
C21_Witness ==
    /\ initial = ParseFen(StandardPosition)
    /\ PerftDone
    /\ walk.depth = 3
    /\ walk.leaves > 0
    /\ b = initial

\* C22: from the Kiwipete position the generator returns exactly 48 moves,
\* both White castling moves among them, and the legal move tree has 2,039
\* leaves at depth 2.
C22_KiwipetePerft ==
    initial = ParseFen(Kiwipete) =>
        /\ (gen.made /\ saves = <<>> /\ walk.leaves = 0) =>
              /\ Len(gen.moves) = 48
              /\ {<<4, 6, 0>>, <<4, 2, 0>>} \subseteq TriplesOf(gen.moves)
        /\ PerftDone => walk.leaves = 2039

\* the walk of depth 2 from the Kiwipete position has ended
C22_Witness ==
    /\ initial = ParseFen(Kiwipete)
    /\ PerftDone
    /\ walk.depth = 2
    /\ walk.leaves > 0
    /\ b = initial

\* the squares a piece other than the king may move to against the single
\* checker c: c itself and, when c is a bishop, rook or queen, the squares
\* strictly between c and the king
RuleBlockerMask(c) ==
    {c} \cup (IF b.pieces[c] \in {Bishop, Rook, Queen} THEN Between(c, KingSquare) ELSE {})

\* C23: single check.  When exactly one opposing piece attacks the mover's
\* king, isInCheck is true, no castling move is generated, and every
\* generated move that does not start on the king's square either ends in
\* the blocker mask or is an en-passant capture after which the king is not
\* attacked.
C23_SingleCheckMoves ==
    (gen.made /\ Cardinality(Checkers) = 1) =>
        /\ gen.isInCheck
        /\ \A i \in 1 .. Len(gen.moves) :
              IF From(gen.moves[i]) = KingSquare
              THEN ~IsCastling(b, gen.moves[i])
              ELSE \/ \E c \in Checkers : To(gen.moves[i]) \in RuleBlockerMask(c)
                   \/ /\ IsEnPassant(b, gen.moves[i])
                      /\ EpLeavesKingSafe(From(gen.moves[i]))

\* a bishop, rook or queen gives the only check from a distance; one listed
\* move interposes, and another piece of the mover has a move by its
\* geometry that is not listed
C23_Witness ==
    /\ gen.made
    /\ Cardinality(Checkers) = 1
    /\ \E c \in Checkers :
          /\ b.pieces[c] \in {Bishop, Rook, Queen}
          /\ \E i \in 1 .. Len(gen.moves) :
                /\ From(gen.moves[i]) # KingSquare
                /\ To(gen.moves[i]) \in Between(c, KingSquare)
    /\ \E s \in b.Bbs[Mover][All] \ {KingSquare} :
          \E t \in RuleTargets(PosOf(b), Mover, b.enpassant, s) :
              \A i \in 1 .. Len(gen.moves) : <<From(gen.moves[i]), To(gen.moves[i])>> # <<s, t>>

\* what MakeMove of the move m in the position bd must do with the rook:
\* r is the result of MakeMove, old and new the rook's squares
RookIsMoved(bd, r, old, new) ==
    LET col == bd.Colortomove
    IN  /\ bd.pieces[old] = Rook /\ old \in bd.Bbs[col][Rook]
        /\ r.b.pieces[old] = Nothing
        /\ old \notin r.b.Bbs[col][Rook] /\ old \notin r.b.Bbs[col][All]
        /\ r.b.pieces[new] = Rook
        /\ new \in r.b.Bbs[col][Rook] /\ new \in r.b.Bbs[col][All]
        /\ r.b.hash = recomputeBoardHash(r.b)
        /\ r.bs.OurRookFrom = old /\ r.bs.OurRookTo = new

CastlingIsExecuted(bd, m, r) ==
    IF bd.pieces[From(m)] = King /\ To(m) = From(m) + 2
    THEN RookIsMoved(bd, r, To(m) + 1, To(m) - 1)
    ELSE IF bd.pieces[From(m)] = King /\ To(m) = From(m) - 2
    THEN RookIsMoved(bd, r, To(m) - 2, To(m) + 1)
    ELSE r.bs.OurRookFrom = 0 /\ r.bs.OurRookTo = 0

\* C24: castling execution.  MakeMove of a king move with to = from + 2
\* moves the mover's rook from to+1 to to-1, with to = from - 2 from to-2 to
\* to+1: the old square is empty and the new square holds a rook in the Rook
\* bitboard, the All bitboard and pieces[], the hash is the hash of the new
\* position, and the BoardSaveT records the rook's squares; for every other
\* move it records 0 and 0.
C24_CastlingMovesTheRook ==
    gen.made =>
        \A i \in 1 .. Len(gen.moves) :
            /\ CastlingIsExecuted(b, gen.moves[i], MakeMove(b, gen.moves[i]))
            /\ MayBeSimple(b, gen.moves[i]) =>
                  CastlingIsExecuted(b, gen.moves[i], MakeMove(b, Setsimple(gen.moves[i])))

\* a castling move to the queenside has been made, the stack records it
C24_Witness ==
    /\ saves # <<>>
    /\ Top.kind = "move"
    /\ Top.before.pieces[From(Top.m)] = King
    /\ To(Top.m) = From(Top.m) - 2
    /\ Top.bs.OurRookFrom = To(Top.m) - 2
    /\ Top.bs.OurRookTo = To(Top.m) + 1
    /\ b.pieces[To(Top.m) + 1] = Rook
    /\ b.pieces[To(Top.m)] = King

\* the square one rank behind the en-passant square, seen from the mover
BehindSquare(bd) == IF bd.Colortomove = White THEN bd.enpassant - 8 ELSE bd.enpassant + 8

\* r is the result of MakeMove of an en-passant capture in the position bd
EnPassantIsExecuted(bd, m, r) ==
    LET our == bd.Colortomove
        opp == oppColor(our)
        behind == BehindSquare(bd)
    IN  /\ bd.pieces[behind] = Pawn /\ behind \in bd.Bbs[opp][Pawn]
        /\ behind \notin r.b.Bbs[opp][Pawn]
        /\ behind \notin r.b.Bbs[opp][All]
        /\ r.b.pieces[behind] = Nothing
        /\ r.b.hash = recomputeBoardHash(r.b)
        /\ r.b.pieces[To(m)] = Pawn
        /\ To(m) \in r.b.Bbs[our][Pawn] /\ To(m) \in r.b.Bbs[our][All]
        /\ From(m) \notin r.b.Bbs[our][All]
        /\ r.b.Halfmoveclock = 0
        /\ r.bs.CapturePiece = Pawn
        /\ r.bs.CaptureLoc = behind
        /\ r.bs.CaptureLoc # To(m)

\* C25: en-passant execution.  MakeMove of a pawn move onto the non-zero
\* en-passant square removes the opposing pawn one rank behind that square
\* from the opponent's Pawn and All bitboards, pieces[] and the hash, puts
\* the capturing pawn on the en-passant square, sets the halfmove clock to
\* 0 and records CapturePiece = Pawn with CaptureLoc the behind square.
C25_EnPassantRemovesThePawn ==
    gen.made =>
        \A i \in 1 .. Len(gen.moves) :
            IsEnPassant(b, gen.moves[i]) =>
                EnPassantIsExecuted(b, gen.moves[i], MakeMove(b, gen.moves[i]))

\* an en-passant capture has been made, the stack records it
C25_Witness ==
    /\ saves # <<>>
    /\ Top.kind = "move"
    /\ IsEnPassant(Top.before, Top.m)
    /\ Top.bs.CapturePiece = Pawn
    /\ Top.bs.CaptureLoc = BehindSquare(Top.before)
    /\ b.pieces[Top.bs.CaptureLoc] = Nothing
    /\ b.pieces[To(Top.m)] = Pawn
    /\ b.Halfmoveclock = 0

\* C26: move generation has no net effect on the position.  kingPushes lifts
\* the mover's king from its bitboards and pawnCaptures edits the pawn and
\* All bitboards to try an en-passant capture, yet on return from
\* GenerateLegalMoves2 every bitboard, pieces[], side to move, castle
\* rights, en-passant square, counters and hash are what they were at the
\* call, also when the tried en-passant capture is rejected.
C26_GenerationLeavesTheBoard ==
    [][(gen = NoGen /\ gen'.made) => b' = b]_vars

\* the list has been generated from a start position; an en-passant capture
\* was tried on the board and rejected, king moves were tried with the king
\* lifted, and the board is the start position
C26_Witness ==
    /\ gen.made
    /\ saves = <<>>
    /\ undone = NoSave
    /\ \E s \in EpCapturers : ~EpListed(s)
    /\ \E i \in 1 .. Len(gen.moves) : From(gen.moves[i]) = KingSquare
    /\ b = initial
    /\ b.hash = recomputeBoardHash(initial)

\* C27: the fast path and the slow path agree.  For every legal move that is
\* no promotion, no en-passant capture and no castling move, MakeSimpleMove
\* and MakeSpecialMove from the same position give the same position
\* (bitboards, pieces[], castle rights, en-passant square, counters, side to
\* move, hash) and the same BoardSaveT.
C27_FastAndSlowPathAgree ==
    gen.made =>
        \A i \in 1 .. Len(gen.moves) :
            MayBeSimple(b, gen.moves[i]) =>
                /\ MakeSimpleMove(b, Setsimple(gen.moves[i])).b = MakeSpecialMove(b, gen.moves[i]).b
                /\ MakeSimpleMove(b, Setsimple(gen.moves[i])).bs = MakeSpecialMove(b, gen.moves[i]).bs

\* the list holds a capture by a rook that leaves its home square and loses
\* a castle right, and a king move that loses both: each may take the fast
\* path
C27_Witness ==
    /\ gen.made
    /\ \E i \in 1 .. Len(gen.moves) :
          /\ MayBeSimple(b, gen.moves[i])
          /\ b.pieces[From(gen.moves[i])] = Rook
          /\ b.pieces[To(gen.moves[i])] # Nothing
          /\ MakeSimpleMove(b, Setsimple(gen.moves[i])).b.castlerights # b.castlerights
    /\ \E i \in 1 .. Len(gen.moves) :
          /\ MayBeSimple(b, gen.moves[i])
          /\ From(gen.moves[i]) = KingSquare
          /\ b.castlerights[Mover] # MakeSpecialMove(b, gen.moves[i]).b.castlerights[Mover]

\* the pawns of the mover that the generator classifies as absolutely pinned
PinnedPawns == generatePinnedMoves(moveList(b), everything).pinned \cap b.Bbs[Mover][Pawn]

\* C28: for every pawn the generator classifies as absolutely pinned, the
\* moves listed from the pawn's square are exactly the moves of that pawn
\* that the rules allow: pushes along a pin on its file, the capture of the
\* pinning piece, and an en-passant capture onto the pin diagonal.
C28_PinnedPawnMovesAreTheLegalOnes ==
    (gen.made /\ ~gen.onlyNoisy) =>
        \A s \in PinnedPawns :
            {t \in TriplesOf(gen.moves) : t[1] = s} = {t \in LegalMovesOf(b) : t[1] = s}

\* C29: IsCapture(m, b) is true exactly when the legal move m captures a
\* piece in b: when its destination is occupied or it is a pawn move onto
\* the non-zero en-passant square.  So it is false for a pawn move to an
\* empty square when the en-passant field is 0, a move onto a1 (square 0)
\* included.
C29_IsCaptureIffCaptures ==
    gen.made =>
        \A i \in 1 .. Len(gen.moves) :
            IsCapture(gen.moves[i], b)
                <=> (b.pieces[To(gen.moves[i])] # Nothing \/ IsEnPassant(b, gen.moves[i]))

\* the pinned pawns whose king stands on their file: pinned along the file
FilePinnedPawns ==
    {s \in PinnedPawns :
        /\ fileOf(s) = fileOf(KingSquare)
        /\ \E a \in b.Bbs[oppColor(Mover)][Rook] \cup b.Bbs[oppColor(Mover)][Queen] :
              fileOf(a) = fileOf(s) /\ s \in Between(a, KingSquare)}

\* C30: a pawn pinned along its own file never has a push target on the
\* promotion rank: the pushes listed for it all end off the mover's
\* promotion rank, and no pawn move onto the last rank is listed without a
\* promotion piece.
C30_NoPlainPushOntoLastRank ==
    gen.made =>
        /\ \A s \in FilePinnedPawns :
              \A i \in 1 .. Len(gen.moves) :
                  From(gen.moves[i]) = s => rankOf(To(gen.moves[i])) # PromotionRank(Mover)
        /\ \A i \in 1 .. Len(gen.moves) :
              (b.pieces[From(gen.moves[i])] = Pawn
                 /\ rankOf(To(gen.moves[i])) = PromotionRank(Mover))
                  => Promote(gen.moves[i]) # 0

\* a pawn one step from the promotion rank is pinned along its file, and the
\* list, which is not empty, has no move for it
C30_Witness ==
    /\ gen.made
    /\ gen.moves # <<>>
    /\ \E s \in FilePinnedPawns :
          /\ rankOf(s) + Forward(Mover) = PromotionRank(Mover)
          /\ \A i \in 1 .. Len(gen.moves) : From(gen.moves[i]) # s
====
